---- MODULE Spec2Model ----
(***************************************************************************)
(* A small-step model of the sloth tree-walking evaluator                  *)
(* (evaluator/evaluator.go, object/object.go, object/environment.go).      *)
(*                                                                         *)
(* The Go evaluator is a recursive function Eval(node, env).  The model    *)
(* makes the host call stack explicit: ctrl is either a node about to be   *)
(* evaluated in an environment or an object being returned, and kont is    *)
(* the stack of suspended Eval activations (one frame per recursive call   *)
(* that still has work to do after its callee returns).  Environments are  *)
(* heap cells (envs) addressed by index, because Function objects and      *)
(* activations share them by pointer.  Every object carries the identity   *)
(* (id) of its allocation, because == and != compare pointers.             *)
(***************************************************************************)
EXTENDS Integers, Sequences, FiniteSets, TLC

VARIABLES
    input,      \* the Program handed to Eval and the initial global bindings
    ctrl,       \* what the evaluator is doing now: evaluating a node or returning an object
    kont,       \* suspended Eval activations, innermost first
    envs,       \* heap of object.Environment cells; index 1 is the global environment
    nextId,     \* identity of the next allocated object
    status,     \* "running", "done" (Eval returned) or "panic" (Go runtime panic)
    result,     \* the Object returned by Eval(Program, env) once done
    fault,      \* the Go runtime panic message when status = "panic"
    run,        \* 1 for the first evaluation of the input, 2 for the re-evaluation
    first,      \* outcome of the first evaluation, kept for comparison with the second
    stdin,      \* the input lines the REPL has not read yet
    parser,     \* the Parser of the line being parsed
    program,    \* the *ast.Program that ParseProgram is building
    lexer,      \* a Lexer driven directly through NextToken
    tokens      \* the tokens that NextToken returned for it, in order

vars == <<input, ctrl, kont, envs, nextId, status, result, fault, run, first,
          stdin, parser, program, lexer, tokens>>

\* The state of the REPL around the evaluator.
replVars == <<stdin, parser, program, lexer, tokens>>

\* The lexer that is driven on its own, and what it returned.
lexVars == <<lexer, tokens>>

(***************************************************************************)
(* Bounds of the model.                                                    *)
(***************************************************************************)
MaxDepth == 90      \* suspended activations allowed on the host stack
MaxFib == 10        \* largest argument of the recursive fib program
MaxCounter == 2     \* largest start value of the counter-closure programs
MaxStatements == 2  \* most statements in a generated source line

(***************************************************************************)
(* AST nodes (package ast).  A nil node pointer is NoNode.                 *)
(***************************************************************************)
NoNode == [t |-> "nil"]
Program(stmts) == [t |-> "Program", stmts |-> stmts]
LetStatement(name, value) == [t |-> "LetStatement", name |-> name, value |-> value]
\* A *ast.LetStatement that is nil, held in a non-nil ast.Statement interface.
NilLetStatement == [t |-> "LetStatement", pointer |-> "nil"]
\* A *ast.BlockStatement that is nil, held in a non-nil ast.Node interface.
NilBlockStatement == [t |-> "BlockStatement", pointer |-> "nil"]
\* The ast.Node that Eval receives for a *ast.BlockStatement field (Consequence,
\* Alternative, Body): a nil pointer arrives as a non-nil interface.
BlockNode(block) == IF block = NoNode THEN NilBlockStatement ELSE block
ReturnStatement(value) == [t |-> "ReturnStatement", value |-> value]
ExpressionStatement(e) == [t |-> "ExpressionStatement", expr |-> e]
BlockStatement(stmts) == [t |-> "BlockStatement", stmts |-> stmts]
Identifier(name) == [t |-> "Identifier", name |-> name]
\* The literal field is the text of the token (Token.Literal).
IntegerLiteral(v) == [t |-> "IntegerLiteral", v |-> v, literal |-> ToString(v)]
StringLiteral(s) == [t |-> "StringLiteral", s |-> s]
Boolean(b) == [t |-> "Boolean", b |-> b]
PrefixExpression(op, right) == [t |-> "PrefixExpression", op |-> op, right |-> right]
InfixExpression(op, left, right) ==
    [t |-> "InfixExpression", op |-> op, left |-> left, right |-> right]
IfExpression(cond, cons, alt) ==
    [t |-> "IfExpression", cond |-> cond, cons |-> cons, alt |-> alt]
FunctionLiteral(params, body) == [t |-> "FunctionLiteral", params |-> params, body |-> body]
CallExpression(fn, args) == [t |-> "CallExpression", fn |-> fn, args |-> args]
ArrayLiteral(elems) == [t |-> "ArrayLiteral", elems |-> elems]
\* Pairs is a Go map keyed by node pointer: a sequence of <<key, value>> here,
\* visited in an order chosen at evaluation time.
HashLiteral(pairs) == [t |-> "HashLiteral", pairs |-> pairs]
IndexExpression(left, index) == [t |-> "IndexExpression", left |-> left, index |-> index]

(***************************************************************************)
(* Objects (package object).  NIL is the nil object.Object interface.      *)
(* String contents are sequences of bytes.                                 *)
(***************************************************************************)
NIL == [type |-> "nil"]
NULL == [type |-> "NULL", id |-> 1]
TRUE_OBJ == [type |-> "BOOLEAN", id |-> 2, b |-> TRUE]
FALSE_OBJ == [type |-> "BOOLEAN", id |-> 3, b |-> FALSE]
BuiltinLen == [type |-> "BUILTIN", id |-> 4, name |-> "len"]

Integer(v, id) == [type |-> "INTEGER", id |-> id, int |-> v]
String(s, id) == [type |-> "STRING", id |-> id, str |-> s]
ReturnValue(v, id) == [type |-> "RETURN_VALUE", id |-> id, inner |-> v]
Error(msg, id) == [type |-> "ERROR", id |-> id, msg |-> msg]
Function(params, body, env, id) ==
    [type |-> "FUNCTION", id |-> id, params |-> params, body |-> body, env |-> env]
Array(elems, id) == [type |-> "ARRAY", id |-> id, elems |-> elems]
Hash(pairs, id) == [type |-> "HASH", id |-> id, pairs |-> pairs]

newError(msg, id) == Error(msg, id)

isError(obj) == IF obj # NIL THEN obj.type = "ERROR" ELSE FALSE

\* nativeBoolToBooleanObject returning &object.Boolean{Value: input}, an
\* object of its own, instead of one of the two shared ones.
nativeBoolToBooleanObjectNew(b) == [type |-> "BOOLEAN", id |-> 0, b |-> b]

nativeBoolToBooleanObject(b) == IF b THEN TRUE_OBJ ELSE FALSE_OBJ

\* Comparison of two objects by type and contents instead of by pointer.
SameContents(a, b) ==
    IF a = NIL \/ b = NIL THEN a = NIL /\ b = NIL
    ELSE [f \in DOMAIN a \ {"id"} |-> a[f]] = [f \in DOMAIN b \ {"id"} |-> b[f]]

\* Pointer comparison of two objects (Go == on interface values holding pointers).
SameObject(a, b) ==
    IF a = NIL \/ b = NIL THEN a = NIL /\ b = NIL ELSE a.id = b.id

\* Variant of isTruthy that also takes the integer 0 for false.
isTruthyZeroFalsy(obj) ==
    IF SameObject(obj, NULL) THEN FALSE
    ELSE IF SameObject(obj, TRUE_OBJ) THEN TRUE
    ELSE IF SameObject(obj, FALSE_OBJ) THEN FALSE
    ELSE IF obj # NIL /\ obj.type = "INTEGER" /\ obj.int = 0 THEN FALSE
    ELSE TRUE

isTruthy(obj) ==
    IF SameObject(obj, NULL) THEN FALSE
    ELSE IF SameObject(obj, TRUE_OBJ) THEN TRUE
    ELSE IF SameObject(obj, FALSE_OBJ) THEN FALSE
    ELSE TRUE

unwrapReturnValue(obj) ==
    IF obj # NIL /\ obj.type = "RETURN_VALUE" THEN obj.inner ELSE obj

(***************************************************************************)
(* Environments (object/environment.go).                                   *)
(***************************************************************************)
EmptyStore == [n \in {} |-> NIL]
NewEnvironment == [store |-> EmptyStore, outer |-> 0]
NewEnclosedEnvironment(outer) == [store |-> EmptyStore, outer |-> outer]

RECURSIVE Get(_, _, _)
Get(es, e, name) ==
    IF name \in DOMAIN es[e].store
    THEN [obj |-> es[e].store[name], ok |-> TRUE]
    ELSE IF es[e].outer # 0
         THEN Get(es, es[e].outer, name)
         ELSE [obj |-> NIL, ok |-> FALSE]

\* Variant of Set that rebinds the name in the nearest outer environment that
\* already binds it (assignment to the captured variable).
RECURSIVE SetWhereBound(_, _, _, _)
SetWhereBound(es, e, name, val) ==
    IF name \notin DOMAIN es[e].store /\ es[e].outer # 0 /\ Get(es, es[e].outer, name).ok
    THEN SetWhereBound(es, es[e].outer, name, val)
    ELSE [es EXCEPT ![e].store = (name :> val) @@ @]

Set(es, e, name, val) == [es EXCEPT ![e].store = (name :> val) @@ @]

(***************************************************************************)
(* Outcome of a Go function that returns an Object: the object, or the     *)
(* runtime panic that aborted it.                                          *)
(***************************************************************************)
NilDeref == "runtime error: invalid memory address or nil pointer dereference"
DivideByZero == "runtime error: integer divide by zero"
\* s[i] on a slice of length n <= i, in the words of the Go runtime (1.13 and later).
IndexOutOfRange(i, n) ==
    "runtime error: index out of range [" \o ToString(i) \o "] with length " \o ToString(n)

Ok(obj) == [obj |-> obj, panic |-> ""]
Panic(msg) == [obj |-> NIL, panic |-> msg]

\* The identity counter after a step that may have allocated the object obj at id.
Alloc(obj, id) == IF obj # NIL /\ obj.id = id THEN id + 1 ELSE id

\* The int64 that an arithmetic operation of Go stores for the exact result x:
\* the value in -2^63 .. 2^63 - 1 congruent to x modulo 2^64 (wrap-around, no
\* panic).  A result of magnitude up to 2^30 is its own int64.
Int64(x) ==
    IF -(2^30) <= x /\ x <= 2^30 THEN x
    ELSE ((x + 2^63) % 2^64) - 2^63

\* Go's integer division truncates toward zero; the one quotient that leaves
\* the int64 range, of the most negative value by -1, wraps to that value.
GoDiv(a, b) ==
    LET aa == IF a < 0 THEN -a ELSE a
        bb == IF b < 0 THEN -b ELSE b
        q == aa \div bb
    IN Int64(IF (a < 0) # (b < 0) THEN -q ELSE q)

(***************************************************************************)
(* HashKey (object/object.go): a type tag and a uint64, the latter kept as *)
(* four 16-bit limbs, most significant first.                              *)
(***************************************************************************)
Limb == 2^16

\* uint64(v) for an int64 v of small magnitude (two's complement when negative).
Uint64(v) ==
    IF v >= 0
    THEN <<0, 0, v \div Limb, v % Limb>>
    ELSE LET m == (-v) - 1
         IN <<Limb - 1, Limb - 1, (Limb - 1) - (m \div Limb), (Limb - 1) - (m % Limb)>>

RECURSIVE Xor(_, _)
Xor(a, b) ==
    IF a = 0 THEN b
    ELSE IF b = 0 THEN a
    ELSE (((a % 2) + (b % 2)) % 2) + 2 * Xor(a \div 2, b \div 2)

\* h * 0x100000001b3 mod 2^64 (the FNV-1a 64-bit prime has limbs 0, 0x100, 0, 0x1b3).
FnvMul(h) ==
    LET r0 == h[4] * 435
        r1 == h[3] * 435 + (r0 \div Limb)
        r2 == h[2] * 435 + h[4] * 256 + (r1 \div Limb)
        r3 == h[1] * 435 + h[3] * 256 + (r2 \div Limb)
    IN <<r3 % Limb, r2 % Limb, r1 % Limb, r0 % Limb>>

RECURSIVE Fnv64a(_, _)
Fnv64a(h, bytes) ==
    IF bytes = <<>> THEN h
    ELSE Fnv64a(FnvMul(<<h[1], h[2], h[3], Xor(h[4], Head(bytes))>>), Tail(bytes))

FnvOffset == <<52210, 40164, 33826, 8997>>     \* 0xcbf29ce484222325

Hashable(obj) == obj # NIL /\ obj.type \in {"INTEGER", "BOOLEAN", "STRING"}

\* HashKey without the type of the object: every key carries the same tag.
HashKeyUntyped(obj) ==
    IF obj.type = "BOOLEAN"
    THEN [type |-> "INTEGER", value |-> IF obj.b THEN Uint64(1) ELSE Uint64(0)]
    ELSE IF obj.type = "INTEGER"
    THEN [type |-> "INTEGER", value |-> Uint64(obj.int)]
    ELSE [type |-> "INTEGER", value |-> Fnv64a(FnvOffset, obj.str)]

HashKey(obj) ==
    IF obj.type = "BOOLEAN"
    THEN [type |-> obj.type, value |-> IF obj.b THEN Uint64(1) ELSE Uint64(0)]
    ELSE IF obj.type = "INTEGER"
    THEN [type |-> obj.type, value |-> Uint64(obj.int)]
    ELSE [type |-> obj.type, value |-> Fnv64a(FnvOffset, obj.str)]

(***************************************************************************)
(* Operators of the evaluator (evaluator/evaluator.go).  id is the         *)
(* identity a newly allocated result takes.  x.Type() on a nil interface   *)
(* panics; the checks below follow the order in which Go evaluates them.   *)
(***************************************************************************)
evalBangOperatorExpression(right) ==
    IF SameObject(right, TRUE_OBJ) THEN FALSE_OBJ
    ELSE IF SameObject(right, FALSE_OBJ) THEN TRUE_OBJ
    ELSE IF SameObject(right, NULL) THEN TRUE_OBJ
    ELSE FALSE_OBJ

evalMinusPrefixOperatorExpression(right, id) ==
    IF right = NIL THEN Panic(NilDeref)
    ELSE IF right.type # "INTEGER"
    THEN Ok(newError("unknown operator: -" \o right.type, id))
    ELSE Ok(Integer(Int64(-right.int), id))

evalPrefixExpression(operator, right, id) ==
    IF operator = "!" THEN Ok(evalBangOperatorExpression(right))
    ELSE IF operator = "-" THEN evalMinusPrefixOperatorExpression(right, id)
    ELSE IF right = NIL THEN Panic(NilDeref)
    ELSE Ok(newError("unknown operator: " \o operator \o right.type, id))

evalIntegerInfixExpression(operator, left, right, id) ==
    LET leftVal == left.int
        rightVal == right.int
        unknown == newError("unknown operator: " \o left.type \o " " \o operator
                            \o " " \o right.type, id)
    IN CASE operator = "+" -> Ok(Integer(Int64(leftVal + rightVal), id))
         [] operator = "-" -> Ok(Integer(Int64(leftVal - rightVal), id))
         [] operator = "*" -> Ok(Integer(Int64(leftVal * rightVal), id))
         [] operator = "/" -> IF rightVal = 0 THEN Panic(DivideByZero)
                              ELSE Ok(Integer(GoDiv(leftVal, rightVal), id))
         [] operator = "<" -> Ok(nativeBoolToBooleanObject(leftVal < rightVal))
         [] operator = ">" -> Ok(nativeBoolToBooleanObject(leftVal > rightVal))
         [] operator = "==" -> Ok(nativeBoolToBooleanObject(leftVal = rightVal))
         [] operator = "!=" -> Ok(nativeBoolToBooleanObject(leftVal # rightVal))
         [] OTHER -> Ok(unknown)

evalStringInfixExpression(operator, left, right, id) ==
    IF operator # "+"
    THEN Ok(newError("unknown operator: " \o left.type \o " " \o operator
                     \o " " \o right.type, id))
    ELSE Ok(String(left.str \o right.str, id))

\* evalInfixExpression without its type-mismatch case.
evalInfixExpressionNoMismatch(operator, left, right, id) ==
    IF left = NIL THEN Panic(NilDeref)
    ELSE IF left.type = "INTEGER" /\ right = NIL THEN Panic(NilDeref)
    ELSE IF left.type = "INTEGER" /\ right.type = "INTEGER"
    THEN evalIntegerInfixExpression(operator, left, right, id)
    ELSE IF operator = "==" THEN Ok(nativeBoolToBooleanObject(SameObject(left, right)))
    ELSE IF operator = "!=" THEN Ok(nativeBoolToBooleanObject(~SameObject(left, right)))
    ELSE IF right = NIL THEN Panic(NilDeref)
    ELSE IF left.type = "STRING" /\ right.type = "STRING"
    THEN evalStringInfixExpression(operator, left, right, id)
    ELSE Ok(newError("unknown operator: " \o left.type \o " " \o operator
                     \o " " \o right.type, id))

evalInfixExpression(operator, left, right, id) ==
    IF left = NIL THEN Panic(NilDeref)
    ELSE IF left.type = "INTEGER" /\ right = NIL THEN Panic(NilDeref)
    ELSE IF left.type = "INTEGER" /\ right.type = "INTEGER"
    THEN evalIntegerInfixExpression(operator, left, right, id)
    ELSE IF operator = "==" THEN Ok(nativeBoolToBooleanObject(SameObject(left, right)))
    ELSE IF operator = "!=" THEN Ok(nativeBoolToBooleanObject(~SameObject(left, right)))
    ELSE IF right = NIL THEN Panic(NilDeref)
    ELSE IF left.type # right.type
    THEN Ok(newError("type mismatch: " \o left.type \o " " \o operator
                     \o " " \o right.type, id))
    ELSE IF left.type = "STRING" /\ right.type = "STRING"
    THEN evalStringInfixExpression(operator, left, right, id)
    ELSE Ok(newError("unknown operator: " \o left.type \o " " \o operator
                     \o " " \o right.type, id))

\* Variant of evalIdentifier that consults the builtin table first.
evalIdentifierBuiltinFirst(node, env, es, id) ==
    LET found == Get(es, env, node.name)
    IN IF node.name = "len" THEN BuiltinLen
       ELSE IF found.ok THEN found.obj
       ELSE newError("identifier not found: " \o node.name, id)

evalIdentifier(node, env, es, id) ==
    LET found == Get(es, env, node.name)
    IN IF found.ok THEN found.obj
       ELSE IF node.name = "len" THEN BuiltinLen
       ELSE newError("identifier not found: " \o node.name, id)

evalArrayIndexExpression(array, index) ==
    LET idx == index.int
        max == Len(array.elems) - 1
    IN IF idx < 0 \/ idx > max THEN NULL ELSE array.elems[idx + 1]

evalHashIndexExpression(hash, index, id) ==
    IF ~Hashable(index)
    THEN IF index = NIL THEN Panic(NilDeref)
         ELSE Ok(newError("unusable as hash key: " \o index.type, id))
    ELSE IF HashKey(index) \notin DOMAIN hash.pairs THEN Ok(NULL)
    ELSE Ok(hash.pairs[HashKey(index)].value)

evalIndexExpression(left, index, id) ==
    IF left = NIL THEN Panic(NilDeref)
    ELSE IF left.type = "ARRAY" /\ index = NIL THEN Panic(NilDeref)
    ELSE IF left.type = "ARRAY" /\ index.type = "INTEGER"
    THEN Ok(evalArrayIndexExpression(left, index))
    ELSE IF left.type = "HASH" THEN evalHashIndexExpression(left, index, id)
    ELSE Ok(newError("index operator not supported: " \o left.type, id))

\* The builtin table has the single entry len (strings only).  The message of
\* the last case quotes len in backquotes, bytes 0x60 (see GoString).
builtinLen(args, id) ==
    IF Len(args) # 1
    THEN Ok(newError("wrong number of arguments. got=" \o ToString(Len(args))
                     \o ", want=1", id))
    ELSE IF args[1] = NIL THEN Panic(NilDeref)
    ELSE IF args[1].type = "STRING" THEN Ok(Integer(Len(args[1].str), id))
    ELSE Ok(newError("argument to \\x60len\\x60 not supported, got " \o args[1].type, id))

\* evalExpressions after one more element has been evaluated: the results so
\* far, or the one-element list holding the Error that stopped the loop.
evalExpressionsNext(acc, evaluated) ==
    IF isError(evaluated)
    THEN [stop |-> TRUE, result |-> <<evaluated>>]
    ELSE [stop |-> FALSE, result |-> Append(acc, evaluated)]

\* The test of the caller on the list evalExpressions returned.
IsErrorList(args) == Len(args) = 1 /\ isError(args[1])

\* Variant of extendFunctionEnv that binds the parameters in the function's own
\* environment instead of a fresh one enclosed by it.
extendFunctionEnvShared(fn, args, es) ==
    LET n == IF Len(args) < Len(fn.params) THEN Len(args) ELSE Len(fn.params)
        bound == [p \in {fn.params[i] : i \in 1..n} |->
                    args[CHOOSE i \in 1..n : fn.params[i] = p
                                             /\ \A j \in (i+1)..n : fn.params[j] # p]]
    IN [envs |-> [es EXCEPT ![fn.env].store = bound @@ @], env |-> fn.env,
        panic |-> IF Len(args) < Len(fn.params)
                  THEN IndexOutOfRange(Len(args), Len(args)) ELSE ""]

\* extendFunctionEnv: a fresh environment enclosed by the function's, the
\* parameters bound in order; indexing args past its end panics.
extendFunctionEnv(fn, args, es) ==
    LET e == Len(es) + 1
        n == IF Len(args) < Len(fn.params) THEN Len(args) ELSE Len(fn.params)
        bound == [p \in {fn.params[i] : i \in 1..n} |->
                    args[CHOOSE i \in 1..n : fn.params[i] = p
                                             /\ \A j \in (i+1)..n : fn.params[j] # p]]
        cell == [NewEnclosedEnvironment(fn.env) EXCEPT !.store = bound]
    IN [envs |-> Append(es, cell), env |-> e,
        panic |-> IF Len(args) < Len(fn.params)
                  THEN IndexOutOfRange(Len(args), Len(args)) ELSE ""]

(***************************************************************************)
(* The machine.                                                            *)
(***************************************************************************)
EvalC(node, env) == [mode |-> "eval", node |-> node, env |-> env, val |-> NIL]
RetC(val) == [mode |-> "ret", node |-> NoNode, env |-> 0, val |-> val]

Running == status = "running"
Evaluating(t) == Running /\ ctrl.mode = "eval" /\ ctrl.node.t = t
Returning(k) == Running /\ ctrl.mode = "ret" /\ kont # <<>> /\ Head(kont).k = k

Push(frame, k) == <<frame>> \o k

\* Continue evaluation with control c, stack k, heap es and identity counter id.
Goto(c, k, es, id) ==
    /\ ctrl' = c
    /\ kont' = k
    /\ envs' = es
    /\ nextId' = id
    /\ UNCHANGED <<input, status, result, fault, run, first>>
    /\ UNCHANGED replVars

\* A Go runtime panic aborts the evaluation.
Crash(msg) ==
    /\ status' = "panic"
    /\ fault' = msg
    /\ UNCHANGED <<input, ctrl, kont, envs, nextId, result, run, first>>
    /\ UNCHANGED replVars

\* An outcome of a helper becomes the returned object, or the panic.
Yield(out, k) ==
    IF out.panic # "" THEN Crash(out.panic)
    ELSE Goto(RetC(out.obj), k, envs, Alloc(out.obj, nextId))

\* Eval(program, env) returns val to its caller.
Finish(val) ==
    /\ status' = "done"
    /\ result' = val
    /\ ctrl' = RetC(val)
    /\ kont' = <<>>
    /\ UNCHANGED <<input, envs, nextId, fault, run, first>>
    /\ UNCHANGED replVars

(***************************************************************************)
(* Statements.                                                             *)
(***************************************************************************)
\* case *ast.Program: evalProgram, up to the first statement.
EvalProgram ==
    /\ Evaluating("Program")
    /\ IF ctrl.node.stmts = <<>>
       THEN Finish(NIL)
       ELSE Goto(EvalC(ctrl.node.stmts[1], ctrl.env),
                 Push([k |-> "evalProgram", stmts |-> ctrl.node.stmts, i |-> 1,
                       env |-> ctrl.env], kont),
                 envs, nextId)

\* evalProgram after a statement returned: unwrap a ReturnValue, stop on an
\* Error, otherwise go on with the next statement.
evalProgram ==
    /\ Returning("evalProgram")
    /\ LET f == Head(kont)
           res == ctrl.val
       IN IF res # NIL /\ res.type = "RETURN_VALUE" THEN Finish(res.inner)
          ELSE IF res # NIL /\ res.type = "ERROR" THEN Finish(res)
          ELSE IF f.i < Len(f.stmts)
          THEN Goto(EvalC(f.stmts[f.i + 1], f.env),
                    Push([f EXCEPT !.i = f.i + 1], Tail(kont)), envs, nextId)
          ELSE Finish(res)

\* case *ast.BlockStatement: evalBlockStatement, up to the first statement.
EvalBlockStatement ==
    /\ Evaluating("BlockStatement")
    /\ IF ctrl.node = NilBlockStatement THEN Crash(NilDeref)
       ELSE IF ctrl.node.stmts = <<>>
       THEN Goto(RetC(NIL), kont, envs, nextId)
       ELSE /\ Len(kont) < MaxDepth
            /\ Goto(EvalC(ctrl.node.stmts[1], ctrl.env),
                    Push([k |-> "evalBlockStatement", stmts |-> ctrl.node.stmts,
                          i |-> 1, env |-> ctrl.env], kont),
                    envs, nextId)

\* evalBlockStatement after a statement returned: hand a ReturnValue or an
\* Error up as it is, otherwise go on with the next statement.
evalBlockStatement ==
    /\ Returning("evalBlockStatement")
    /\ LET f == Head(kont)
           res == ctrl.val
       IN IF res # NIL /\ res.type \in {"RETURN_VALUE", "ERROR"}
          THEN Goto(RetC(res), Tail(kont), envs, nextId)
          ELSE IF f.i < Len(f.stmts)
          THEN Goto(EvalC(f.stmts[f.i + 1], f.env),
                    Push([f EXCEPT !.i = f.i + 1], Tail(kont)), envs, nextId)
          ELSE Goto(RetC(res), Tail(kont), envs, nextId)

\* case *ast.ExpressionStatement: return Eval(node.Expression, env).
EvalExpressionStatement ==
    /\ Evaluating("ExpressionStatement")
    /\ Goto(EvalC(ctrl.node.expr, ctrl.env), kont, envs, nextId)

\* case *ast.ReturnStatement, up to Eval(node.ReturnValue, env).
EvalReturnStatement ==
    /\ Evaluating("ReturnStatement")
    /\ Len(kont) < MaxDepth
    /\ Goto(EvalC(ctrl.node.value, ctrl.env),
            Push([k |-> "ReturnStatement"], kont), envs, nextId)

\* case *ast.ReturnStatement after the value: wrap it unless it is an Error.
ReturnStatementValue ==
    /\ Returning("ReturnStatement")
    /\ IF isError(ctrl.val)
       THEN Goto(RetC(ctrl.val), Tail(kont), envs, nextId)
       ELSE Goto(RetC(ReturnValue(ctrl.val, nextId)), Tail(kont), envs, nextId + 1)

\* case *ast.LetStatement, up to Eval(node.Value, env).
EvalLetStatement ==
    /\ Evaluating("LetStatement")
    /\ IF ctrl.node = NilLetStatement THEN Crash(NilDeref)
       ELSE /\ Len(kont) < MaxDepth
            /\ Goto(EvalC(ctrl.node.value, ctrl.env),
                    Push([k |-> "LetStatement", name |-> ctrl.node.name, env |-> ctrl.env],
                         kont),
                    envs, nextId)

\* Eval of a nil ast.Node: no case of the type switch matches and Eval returns nil.
EvalNil ==
    /\ Evaluating("nil")
    /\ Goto(RetC(NIL), kont, envs, nextId)

\* Variant of LetStatementValue without the isError test.
LetStatementValueUnchecked ==
    /\ Returning("LetStatement")
    /\ Goto(RetC(NIL), Tail(kont),
            Set(envs, Head(kont).env, Head(kont).name, ctrl.val), nextId)

\* case *ast.LetStatement after the value: bind it unless it is an Error; the
\* case falls out of the switch and Eval returns nil.
LetStatementValue ==
    /\ Returning("LetStatement")
    /\ LET f == Head(kont)
       IN IF isError(ctrl.val)
          THEN Goto(RetC(ctrl.val), Tail(kont), envs, nextId)
          ELSE Goto(RetC(NIL), Tail(kont), Set(envs, f.env, f.name, ctrl.val), nextId)

(***************************************************************************)
(* Literals, identifiers, operators.                                       *)
(***************************************************************************)
EvalStringLiteral ==
    /\ Evaluating("StringLiteral")
    /\ Goto(RetC(String(ctrl.node.s, nextId)), kont, envs, nextId + 1)

EvalIntegerLiteral ==
    /\ Evaluating("IntegerLiteral")
    /\ Goto(RetC(Integer(ctrl.node.v, nextId)), kont, envs, nextId + 1)

EvalBoolean ==
    /\ Evaluating("Boolean")
    /\ Goto(RetC(nativeBoolToBooleanObject(ctrl.node.b)), kont, envs, nextId)

EvalIdentifier ==
    /\ Evaluating("Identifier")
    /\ LET obj == evalIdentifier(ctrl.node, ctrl.env, envs, nextId)
       IN Goto(RetC(obj), kont, envs, Alloc(obj, nextId))

\* case *ast.PrefixExpression, up to Eval(node.Right, env).
EvalPrefixExpression ==
    /\ Evaluating("PrefixExpression")
    /\ Len(kont) < MaxDepth
    /\ Goto(EvalC(ctrl.node.right, ctrl.env),
            Push([k |-> "PrefixExpression", op |-> ctrl.node.op], kont), envs, nextId)

PrefixExpressionRight ==
    /\ Returning("PrefixExpression")
    /\ IF isError(ctrl.val)
       THEN Goto(RetC(ctrl.val), Tail(kont), envs, nextId)
       ELSE Yield(evalPrefixExpression(Head(kont).op, ctrl.val, nextId), Tail(kont))

\* case *ast.InfixExpression, up to Eval(node.Left, env).
EvalInfixExpression ==
    /\ Evaluating("InfixExpression")
    /\ Len(kont) < MaxDepth
    /\ Goto(EvalC(ctrl.node.left, ctrl.env),
            Push([k |-> "InfixLeft", op |-> ctrl.node.op, right |-> ctrl.node.right,
                  env |-> ctrl.env], kont),
            envs, nextId)

\* after the left operand: return an Error, otherwise Eval(node.Right, env).
InfixExpressionLeft ==
    /\ Returning("InfixLeft")
    /\ LET f == Head(kont)
       IN IF isError(ctrl.val)
          THEN Goto(RetC(ctrl.val), Tail(kont), envs, nextId)
          ELSE Goto(EvalC(f.right, f.env),
                    Push([k |-> "InfixRight", op |-> f.op, left |-> ctrl.val], Tail(kont)),
                    envs, nextId)

\* after the right operand: return an Error, otherwise apply the operator.
InfixExpressionRight ==
    /\ Returning("InfixRight")
    /\ LET f == Head(kont)
       IN IF isError(ctrl.val)
          THEN Goto(RetC(ctrl.val), Tail(kont), envs, nextId)
          ELSE Yield(evalInfixExpression(f.op, f.left, ctrl.val, nextId), Tail(kont))

\* evalIfExpression, up to Eval(ie.Condition, env).
EvalIfExpression ==
    /\ Evaluating("IfExpression")
    /\ Len(kont) < MaxDepth
    /\ Goto(EvalC(ctrl.node.cond, ctrl.env),
            Push([k |-> "IfExpression", node |-> ctrl.node, env |-> ctrl.env], kont),
            envs, nextId)

\* Variant of evalIfExpression that gives the chosen block an environment of its own.
evalIfExpressionScoped ==
    /\ Returning("IfExpression")
    /\ LET f == Head(kont)
           scoped == Append(envs, NewEnclosedEnvironment(f.env))
       IN IF isError(ctrl.val)
          THEN Goto(RetC(ctrl.val), Tail(kont), envs, nextId)
          ELSE IF isTruthy(ctrl.val)
          THEN Goto(EvalC(BlockNode(f.node.cons), Len(scoped)), Tail(kont), scoped, nextId)
          ELSE IF f.node.alt # NoNode
          THEN Goto(EvalC(BlockNode(f.node.alt), Len(scoped)), Tail(kont), scoped, nextId)
          ELSE Goto(RetC(NULL), Tail(kont), envs, nextId)

\* evalIfExpression after the condition: the chosen block is evaluated in the
\* same environment and its result returned as it is.
evalIfExpression ==
    /\ Returning("IfExpression")
    /\ LET f == Head(kont)
       IN IF isError(ctrl.val)
          THEN Goto(RetC(ctrl.val), Tail(kont), envs, nextId)
          ELSE IF isTruthy(ctrl.val)
          THEN Goto(EvalC(BlockNode(f.node.cons), f.env), Tail(kont), envs, nextId)
          ELSE IF f.node.alt # NoNode
          THEN Goto(EvalC(BlockNode(f.node.alt), f.env), Tail(kont), envs, nextId)
          ELSE Goto(RetC(NULL), Tail(kont), envs, nextId)

(***************************************************************************)
(* Functions and calls.                                                    *)
(***************************************************************************)
\* Variant of evalFunctionLiteral that captures a copy of the environment.
evalFunctionLiteralCopy(node, env, es, id) ==
    [obj |-> Function(node.params, node.body, Len(es) + 1, id), envs |-> Append(es, es[env])]

\* case *ast.FunctionLiteral: the Function object points at the environment
\* the literal is evaluated in.
evalFunctionLiteral(node, env, es, id) ==
    [obj |-> Function(node.params, node.body, env, id), envs |-> es]

EvalFunctionLiteral ==
    /\ Evaluating("FunctionLiteral")
    /\ LET out == evalFunctionLiteral(ctrl.node, ctrl.env, envs, nextId)
       IN Goto(RetC(out.obj), kont, out.envs, nextId + 1)

\* applyFunction(fn, args), up to Eval(fn.Body, extendedEnv); k is the stack
\* of the caller.
applyFunction(fn, args, k) ==
    IF fn = NIL THEN Crash(NilDeref)
    ELSE IF fn.type = "FUNCTION"
    THEN LET ext == extendFunctionEnv(fn, args, envs)
         IN IF ext.panic # "" THEN Crash(ext.panic)
            ELSE /\ Len(k) < MaxDepth
                 /\ Goto(EvalC(BlockNode(fn.body), ext.env),
                         Push([k |-> "applyFunction", fn |-> fn, args |-> args,
                               env |-> ext.env], k),
                         ext.envs, nextId)
    ELSE IF fn.type = "BUILTIN" THEN Yield(builtinLen(args, nextId), k)
    ELSE Goto(RetC(newError("not a function: " \o fn.type, nextId)), k, envs, nextId + 1)

\* applyFunction after the body returned: unwrapReturnValue(evaluated).
applyFunctionBody ==
    /\ Returning("applyFunction")
    /\ Goto(RetC(unwrapReturnValue(ctrl.val)), Tail(kont), envs, nextId)

\* case *ast.CallExpression, up to Eval(node.Function, env).
EvalCallExpression ==
    /\ Evaluating("CallExpression")
    /\ Len(kont) < MaxDepth
    /\ Goto(EvalC(ctrl.node.fn, ctrl.env),
            Push([k |-> "CallFunction", args |-> ctrl.node.args, env |-> ctrl.env], kont),
            envs, nextId)

\* after the callee: return an Error, otherwise evalExpressions(node.Arguments, env);
\* with no arguments the call is applied at once.
CallExpressionFunction ==
    /\ Returning("CallFunction")
    /\ LET f == Head(kont)
       IN IF isError(ctrl.val)
          THEN Goto(RetC(ctrl.val), Tail(kont), envs, nextId)
          ELSE IF f.args = <<>>
          THEN applyFunction(ctrl.val, <<>>, Tail(kont))
          ELSE Goto(EvalC(f.args[1], f.env),
                    Push([k |-> "CallArguments", fn |-> ctrl.val, exps |-> f.args,
                          i |-> 1, acc |-> <<>>, env |-> f.env], Tail(kont)),
                    envs, nextId)

\* evalExpressions after an argument, then the test of the list and applyFunction.
CallExpressionArguments ==
    /\ Returning("CallArguments")
    /\ LET f == Head(kont)
           nxt == evalExpressionsNext(f.acc, ctrl.val)
       IN IF nxt.stop \/ f.i = Len(f.exps)
          THEN IF IsErrorList(nxt.result)
               THEN Goto(RetC(nxt.result[1]), Tail(kont), envs, nextId)
               ELSE applyFunction(f.fn, nxt.result, Tail(kont))
          ELSE Goto(EvalC(f.exps[f.i + 1], f.env),
                    Push([f EXCEPT !.i = f.i + 1, !.acc = nxt.result], Tail(kont)),
                    envs, nextId)

(***************************************************************************)
(* Arrays, hashes, indexing.                                               *)
(***************************************************************************)
EvalArrayLiteral ==
    /\ Evaluating("ArrayLiteral")
    /\ IF ctrl.node.elems = <<>>
       THEN Goto(RetC(Array(<<>>, nextId)), kont, envs, nextId + 1)
       ELSE /\ Len(kont) < MaxDepth
            /\ Goto(EvalC(ctrl.node.elems[1], ctrl.env),
                    Push([k |-> "ArrayElements", exps |-> ctrl.node.elems, i |-> 1,
                          acc |-> <<>>, env |-> ctrl.env], kont),
                    envs, nextId)

ArrayLiteralElements ==
    /\ Returning("ArrayElements")
    /\ LET f == Head(kont)
           nxt == evalExpressionsNext(f.acc, ctrl.val)
       IN IF nxt.stop \/ f.i = Len(f.exps)
          THEN IF IsErrorList(nxt.result)
               THEN Goto(RetC(nxt.result[1]), Tail(kont), envs, nextId)
               ELSE Goto(RetC(Array(nxt.result, nextId)), Tail(kont), envs, nextId + 1)
          ELSE Goto(EvalC(f.exps[f.i + 1], f.env),
                    Push([f EXCEPT !.i = f.i + 1, !.acc = nxt.result], Tail(kont)),
                    envs, nextId)

EmptyPairs == [h \in {} |-> NIL]

\* evalHashLiteral ranges over node.Pairs, a Go map: the order in which the
\* pairs are visited is not determined.
EvalHashLiteral ==
    /\ Evaluating("HashLiteral")
    /\ IF ctrl.node.pairs = <<>>
       THEN Goto(RetC(Hash(EmptyPairs, nextId)), kont, envs, nextId + 1)
       ELSE /\ Len(kont) < MaxDepth
            /\ \E i \in 1..Len(ctrl.node.pairs) :
                 Goto(EvalC(ctrl.node.pairs[i][1], ctrl.env),
                      Push([k |-> "HashKey", pairs |-> ctrl.node.pairs, cur |-> i,
                            rest |-> (1..Len(ctrl.node.pairs)) \ {i},
                            acc |-> EmptyPairs, env |-> ctrl.env], kont),
                      envs, nextId)

\* evalHashLiteral after a key: it must not be an Error and must be Hashable.
evalHashLiteralKey ==
    /\ Returning("HashKey")
    /\ LET f == Head(kont)
           key == ctrl.val
       IN IF isError(key) THEN Goto(RetC(key), Tail(kont), envs, nextId)
          ELSE IF key = NIL THEN Crash(NilDeref)
          ELSE IF ~Hashable(key)
          THEN Goto(RetC(newError("unusable as hash key: " \o key.type, nextId)),
                    Tail(kont), envs, nextId + 1)
          ELSE Goto(EvalC(f.pairs[f.cur][2], f.env),
                    Push([k |-> "HashValue", pairs |-> f.pairs, cur |-> f.cur,
                          rest |-> f.rest, acc |-> f.acc, env |-> f.env, key |-> key],
                         Tail(kont)),
                    envs, nextId)

\* evalHashLiteral after a value: store the pair under the key's HashKey, then
\* visit another pair or return the Hash.
evalHashLiteralValue ==
    /\ Returning("HashValue")
    /\ LET f == Head(kont)
           value == ctrl.val
           pairs == (HashKey(f.key) :> [key |-> f.key, value |-> value]) @@ f.acc
       IN IF isError(value) THEN Goto(RetC(value), Tail(kont), envs, nextId)
          ELSE IF f.rest = {}
          THEN Goto(RetC(Hash(pairs, nextId)), Tail(kont), envs, nextId + 1)
          ELSE \E j \in f.rest :
                 Goto(EvalC(f.pairs[j][1], f.env),
                      Push([k |-> "HashKey", pairs |-> f.pairs, cur |-> j,
                            rest |-> f.rest \ {j}, acc |-> pairs, env |-> f.env],
                           Tail(kont)),
                      envs, nextId)

\* case *ast.IndexExpression, up to Eval(node.Left, env).
EvalIndexExpression ==
    /\ Evaluating("IndexExpression")
    /\ Len(kont) < MaxDepth
    /\ Goto(EvalC(ctrl.node.left, ctrl.env),
            Push([k |-> "IndexLeft", index |-> ctrl.node.index, env |-> ctrl.env], kont),
            envs, nextId)

IndexExpressionLeft ==
    /\ Returning("IndexLeft")
    /\ LET f == Head(kont)
       IN IF isError(ctrl.val)
          THEN Goto(RetC(ctrl.val), Tail(kont), envs, nextId)
          ELSE Goto(EvalC(f.index, f.env),
                    Push([k |-> "IndexIndex", left |-> ctrl.val], Tail(kont)),
                    envs, nextId)

IndexExpressionIndex ==
    /\ Returning("IndexIndex")
    /\ IF isError(ctrl.val)
       THEN Goto(RetC(ctrl.val), Tail(kont), envs, nextId)
       ELSE Yield(evalIndexExpression(Head(kont).left, ctrl.val, nextId), Tail(kont))

(***************************************************************************)
(* The lexer (package lexer, token/token.go).  The input is the sequence   *)
(* of the bytes of the source text; position and readPosition count from   *)
(* 0 as in Go.  A token literal is the sequence of its bytes.              *)
(***************************************************************************)
Token(type, literal) == [Type |-> type, Literal |-> literal]

\* "fn", "let", "true", "false", "if", "else", "return"
keywords ==
    (<<102, 110>> :> "FUNCTION") @@ (<<108, 101, 116>> :> "LET")
    @@ (<<116, 114, 117, 101>> :> "TRUE") @@ (<<102, 97, 108, 115, 101>> :> "FALSE")
    @@ (<<105, 102>> :> "IF") @@ (<<101, 108, 115, 101>> :> "ELSE")
    @@ (<<114, 101, 116, 117, 114, 110>> :> "RETURN")

LookupIdent(ident) == IF ident \in DOMAIN keywords THEN keywords[ident] ELSE "IDENT"

\* s[from:to] of Go.
Slice(s, from, to) == SubSeq(s, from + 1, to)

readChar(l) ==
    [l EXCEPT !.ch = IF l.readPosition >= Len(l.input) THEN 0
                     ELSE l.input[l.readPosition + 1],
              !.position = l.readPosition,
              !.readPosition = l.readPosition + 1]

\* peekChar reading at position instead of readPosition.
peekCharCurrent(l) ==
    IF l.position >= Len(l.input) THEN 0 ELSE l.input[l.position + 1]

peekChar(l) ==
    IF l.readPosition >= Len(l.input) THEN 0 ELSE l.input[l.readPosition + 1]

\* lexer.New
NewLexer(text) == readChar([input |-> text, position |-> 0, readPosition |-> 0, ch |-> 0])

\* 'a'..'z', 'A'..'Z', '_'
isLetter(ch) == (97 <= ch /\ 122 >= ch) \/ (65 <= ch /\ 90 >= ch) \/ ch = 95

\* '0'..'9'
isDigit(ch) == 48 <= ch /\ ch <= 57

\* ' ', '\t', '\n', '\r'
RECURSIVE skipWhitespace(_)
skipWhitespace(l) ==
    IF l.ch = 32 \/ l.ch = 9 \/ l.ch = 10 \/ l.ch = 13 THEN skipWhitespace(readChar(l)) ELSE l

\* The loop of readIdentifier.
RECURSIVE readLetters(_)
readLetters(l) == IF isLetter(l.ch) THEN readLetters(readChar(l)) ELSE l

readIdentifier(l) ==
    LET m == readLetters(l)
    IN [l |-> m, literal |-> Slice(l.input, l.position, m.position)]

\* The loop of readNumber.
RECURSIVE readDigits(_)
readDigits(l) == IF isDigit(l.ch) THEN readDigits(readChar(l)) ELSE l

readNumber(l) ==
    LET m == readDigits(l)
    IN [l |-> m, literal |-> Slice(l.input, l.position, m.position)]

\* The loop of readString: up to the closing '"' or the end of the input.
RECURSIVE readStringChars(_)
readStringChars(l) ==
    LET m == readChar(l)
    IN IF m.ch = 34 \/ m.ch = 0 THEN m ELSE readStringChars(m)

readString(l) ==
    LET m == readStringChars(l)
    IN [l |-> m, literal |-> Slice(l.input, l.position + 1, m.position)]

\* string(ch) of a byte: the UTF-8 encoding of the code point ch, one byte
\* below 128 and two bytes from 128 on.
ByteToString(ch) ==
    IF ch < 128 THEN <<ch>> ELSE <<192 + (ch \div 64), 128 + (ch % 64)>>

newToken(tokenType, ch) == Token(tokenType, ByteToString(ch))

\* The one-byte tokens of NextToken:  + - / * < > ; , { } ( )
SingleByteTokens ==
    (43 :> "+") @@ (45 :> "-") @@ (47 :> "/") @@ (42 :> "*") @@ (60 :> "<") @@ (62 :> ">")
    @@ (59 :> ";") @@ (44 :> ",") @@ (123 :> "{") @@ (125 :> "}") @@ (40 :> "(") @@ (41 :> ")")

\* The lexer after the call and the token returned.
NextToken(l0) ==
    LET Quoted(r) == [l |-> readChar(r.l), tok |-> Token("STRING", r.literal)]
        Ident(r) == [l |-> r.l, tok |-> Token(LookupIdent(r.literal), r.literal)]
        Number(r) == [l |-> r.l, tok |-> Token("INT", r.literal)]
        Two(l, type, two) ==
            [l |-> readChar(two), tok |-> Token(type, ByteToString(l.ch) \o ByteToString(two.ch))]
        Lex(l) ==
            CASE l.ch = 34 -> Quoted(readString(l))
              [] l.ch = 61 ->
                   IF peekChar(l) = 61 THEN Two(l, "==", readChar(l))
                   ELSE [l |-> readChar(l), tok |-> newToken("=", l.ch)]
              [] l.ch = 33 ->
                   IF peekChar(l) = 61 THEN Two(l, "!=", readChar(l))
                   ELSE [l |-> readChar(l), tok |-> newToken("!", l.ch)]
              [] l.ch \in DOMAIN SingleByteTokens ->
                   [l |-> readChar(l), tok |-> newToken(SingleByteTokens[l.ch], l.ch)]
              [] l.ch = 0 -> [l |-> readChar(l), tok |-> Token("EOF", <<>>)]
              [] OTHER ->
                   IF isLetter(l.ch) THEN Ident(readIdentifier(l))
                   ELSE IF isDigit(l.ch) THEN Number(readNumber(l))
                   ELSE [l |-> readChar(l), tok |-> newToken("ILLEGAL", l.ch)]
    IN Lex(skipWhitespace(l0))

(***************************************************************************)
(* The parser (parser/parser.go).  A Parser value is the struct: its lexer, *)
(* the two tokens and the diagnostics.  Every parse function yields the    *)
(* parser after the call and the node returned; a nil ast.Expression or    *)
(* ast.Statement interface is NoNode.                                      *)
(***************************************************************************)
\* Go strings that are kept as TLA+ strings (names, operators, messages,
\* rendered text) are written in escaped form, one-to-one with the bytes: a
\* byte of 32..126 is its character, except that the backslash (92) is two
\* backslashes and the backquote (96), which a TLA+ string cannot hold, is
\* \x60; every other byte b is \x and the two hexadecimal digits of b.
Printable ==
    <<" ", "!", "\"", "#", "$", "%", "&", "'", "(", ")", "*", "+", ",", "-", ".", "/",
      "0", "1", "2", "3", "4", "5", "6", "7", "8", "9", ":", ";", "<", "=", ">", "?",
      "@", "A", "B", "C", "D", "E", "F", "G", "H", "I", "J", "K", "L", "M", "N", "O",
      "P", "Q", "R", "S", "T", "U", "V", "W", "X", "Y", "Z", "[", "\\\\", "]", "^", "_",
      "\\x60", "a", "b", "c", "d", "e", "f", "g", "h", "i", "j", "k", "l", "m", "n", "o",
      "p", "q", "r", "s", "t", "u", "v", "w", "x", "y", "z", "{", "|", "}", "~">>

HexDigits ==
    <<"0", "1", "2", "3", "4", "5", "6", "7", "8", "9", "a", "b", "c", "d", "e", "f">>

\* One byte of a Go string in escaped form.
GoChar(b) ==
    IF b - 31 \in DOMAIN Printable THEN Printable[b - 31]
    ELSE "\\x" \o HexDigits[(b \div 16) + 1] \o HexDigits[(b % 16) + 1]

RECURSIVE GoString(_)
GoString(bytes) ==
    IF bytes = <<>> THEN "" ELSE GoChar(Head(bytes)) \o GoString(Tail(bytes))

\* Precedence levels (iota constants).
LOWEST == 1
EQUALS == 2
LESSGREATER == 3
SUM == 4
PRODUCT == 5
PREFIX == 6
CALL == 7

precedences ==
    ("==" :> EQUALS) @@ ("!=" :> EQUALS) @@ ("<" :> LESSGREATER) @@ (">" :> LESSGREATER)
    @@ ("+" :> SUM) @@ ("-" :> SUM) @@ ("/" :> PRODUCT) @@ ("*" :> PRODUCT) @@ ("(" :> CALL)

\* Token types with a registered prefix / infix parse function (parser.New).
prefixParseFns == {"IDENT", "INT", "!", "-", "TRUE", "FALSE", "(", "IF", "FUNCTION", "STRING"}
infixParseFns == {"+", "-", "/", "*", "==", "!=", "<", ">", "("}

nextToken(p) ==
    LET Advance(r) == [p EXCEPT !.curToken = p.peekToken, !.peekToken = r.tok, !.l = r.l]
    IN Advance(NextToken(p.l))

\* parser.New
NewParser(l) ==
    nextToken(nextToken([l |-> l, errors |-> <<>>,
                         curToken |-> Token("", <<>>), peekToken |-> Token("", <<>>)]))

curTokenIs(p, t) == p.curToken.Type = t
peekTokenIs(p, t) == p.peekToken.Type = t

peekError(p, t) ==
    [p EXCEPT !.errors = Append(@, "expected next token to be " \o t \o ", got "
                                   \o p.peekToken.Type \o " instead")]

noPrefixParseFnError(p, t) ==
    [p EXCEPT !.errors = Append(@, "no prefix parse function for " \o t \o " found")]

expectPeek(p, t) ==
    IF peekTokenIs(p, t) THEN [p |-> nextToken(p), ok |-> TRUE]
    ELSE [p |-> peekError(p, t), ok |-> FALSE]

peekPrecedence(p) ==
    IF p.peekToken.Type \in DOMAIN precedences THEN precedences[p.peekToken.Type] ELSE LOWEST

\* Every current token taken to have the lowest precedence.
curPrecedenceLowest(p) == LOWEST

curPrecedence(p) ==
    IF p.curToken.Type \in DOMAIN precedences THEN precedences[p.curToken.Type] ELSE LOWEST

\* The value of a run of digits in the given base.
RECURSIVE DigitsValue(_, _)
DigitsValue(digits, base) ==
    IF digits = <<>> THEN 0
    ELSE DigitsValue(SubSeq(digits, 1, Len(digits) - 1), base) * base
         + (digits[Len(digits)] - 48)

\* The digits without their leading zeros.
RECURSIVE Significant(_)
Significant(digits) ==
    IF digits # <<>> /\ Head(digits) = 48 THEN Significant(Tail(digits)) ELSE digits

\* Lexicographic a > b for two runs of digits of the same length.
RECURSIVE DigitsGreater(_, _)
DigitsGreater(a, b) ==
    IF a = <<>> THEN FALSE
    ELSE IF Head(a) # Head(b) THEN Head(a) > Head(b)
    ELSE DigitsGreater(Tail(a), Tail(b))

\* "9223372036854775807", the largest int64.
MaxInt64Digits == <<57, 50, 50, 51, 51, 55, 50, 48, 51, 54, 56, 53, 52, 55, 55, 53, 56, 48, 55>>

\* strconv.ParseInt(s, 0, 64) for the run of digits of an INT token: a leading
\* 0 selects base 8; a digit outside the base or a value above the largest
\* int64 is an error.
ParseInt(s) ==
    LET Range(octal, sig) ==
            IF octal THEN Len(sig) > 21
            ELSE \/ Len(sig) > Len(MaxInt64Digits)
                 \/ Len(sig) = Len(MaxInt64Digits) /\ DigitsGreater(sig, MaxInt64Digits)
        Syntax(digits, base) == \E i \in 1..Len(digits) : digits[i] - 48 >= base
        Convert(octal, digits, base) ==
            IF Syntax(digits, base) \/ Range(octal, Significant(digits))
            THEN [err |-> TRUE, value |-> 0]
            ELSE [err |-> FALSE, value |-> DigitsValue(digits, base)]
    IN IF Head(s) = 48 THEN Convert(TRUE, Tail(s), 8) ELSE Convert(FALSE, s, 10)

parseIdentifier(p) == [p |-> p, node |-> Identifier(GoString(p.curToken.Literal))]

parseIntegerLiteral(p) ==
    LET Literal(r) ==
            IF r.err
            THEN [p |-> [p EXCEPT !.errors = Append(@, "could not parse \""
                                      \o GoString(p.curToken.Literal) \o "\" as integer")],
                  node |-> NoNode]
            ELSE [p |-> p,
                  node |-> [IntegerLiteral(r.value)
                               EXCEPT !.literal = GoString(p.curToken.Literal)]]
    IN Literal(ParseInt(p.curToken.Literal))

parseBoolean(p) == [p |-> p, node |-> Boolean(curTokenIs(p, "TRUE"))]

parseStringLiteral(p) == [p |-> p, node |-> StringLiteral(p.curToken.Literal)]

\* The result of a parse function that gave up: the parser and a nil node.
GaveUp(p) == [p |-> p, node |-> NoNode]

RECURSIVE parseExpression(_, _)
RECURSIVE parseInfixLoop(_, _, _)
RECURSIVE parseStatement(_)
RECURSIVE parseBlockStatement(_)
RECURSIVE parseBlockStatements(_, _)
RECURSIVE parseCallArgumentsRest(_, _)

parsePrefixExpression(p) ==
    LET Built(r) ==
            [p |-> r.p, node |-> PrefixExpression(GoString(p.curToken.Literal), r.node)]
    IN Built(parseExpression(nextToken(p), PREFIX))

parseInfixExpression(p, left) ==
    LET Built(r) ==
            [p |-> r.p, node |-> InfixExpression(GoString(p.curToken.Literal), left, r.node)]
    IN Built(parseExpression(nextToken(p), curPrecedence(p)))

parseGroupedExpression(p) ==
    LET Closed(r, e) == IF ~e.ok THEN GaveUp(e.p) ELSE [p |-> e.p, node |-> r.node]
        Inner(r) == Closed(r, expectPeek(r.p, ")"))
    IN Inner(parseExpression(nextToken(p), LOWEST))

parseIfExpression(p) ==
    LET WithAlternative(c, cons, alt) ==
            [p |-> alt.p, node |-> IfExpression(c.node, cons.node, alt.node)]
        AfterElse(c, cons, e) ==
            IF ~e.ok THEN GaveUp(e.p)
            ELSE WithAlternative(c, cons, parseBlockStatement(e.p))
        AfterConsequence(c, cons) ==
            IF ~peekTokenIs(cons.p, "ELSE")
            THEN [p |-> cons.p, node |-> IfExpression(c.node, cons.node, NoNode)]
            ELSE AfterElse(c, cons, expectPeek(nextToken(cons.p), "{"))
        AfterBrace(c, e) ==
            IF ~e.ok THEN GaveUp(e.p) ELSE AfterConsequence(c, parseBlockStatement(e.p))
        AfterParen(c, e) ==
            IF ~e.ok THEN GaveUp(e.p) ELSE AfterBrace(c, expectPeek(e.p, "{"))
        AfterCondition(c) == AfterParen(c, expectPeek(c.p, ")"))
        AfterIf(e) ==
            IF ~e.ok THEN GaveUp(e.p)
            ELSE AfterCondition(parseExpression(nextToken(e.p), LOWEST))
    IN AfterIf(expectPeek(p, "("))

\* The loop of parseFunctionParameters: one more ", <identifier>" per round.
RECURSIVE parseFunctionParametersRest(_, _)
parseFunctionParametersRest(p, identifiers) ==
    LET Round(q) ==
            parseFunctionParametersRest(q, Append(identifiers,
                                                  GoString(q.curToken.Literal)))
    IN IF peekTokenIs(p, ",") THEN Round(nextToken(nextToken(p)))
       ELSE [p |-> p, identifiers |-> identifiers]

\* A nil slice of parameters is the empty sequence.
parseFunctionParameters(p) ==
    LET Closed(r, e) ==
            IF ~e.ok THEN [p |-> e.p, identifiers |-> <<>>]
            ELSE [p |-> e.p, identifiers |-> r.identifiers]
        Listed(r) == Closed(r, expectPeek(r.p, ")"))
        First(q) == Listed(parseFunctionParametersRest(q, <<GoString(q.curToken.Literal)>>))
    IN IF peekTokenIs(p, ")") THEN [p |-> nextToken(p), identifiers |-> <<>>]
       ELSE First(nextToken(p))

parseFunctionLiteral(p) ==
    LET Built(params, body) ==
            [p |-> body.p, node |-> FunctionLiteral(params.identifiers, body.node)]
        AfterBrace(params, e) ==
            IF ~e.ok THEN GaveUp(e.p) ELSE Built(params, parseBlockStatement(e.p))
        AfterParameters(params) == AfterBrace(params, expectPeek(params.p, "{"))
        AfterFn(e) ==
            IF ~e.ok THEN GaveUp(e.p) ELSE AfterParameters(parseFunctionParameters(e.p))
    IN AfterFn(expectPeek(p, "("))

\* The loop of parseCallArguments: one more ", <expression>" per round.
parseCallArgumentsRest(p, args) ==
    LET Round(r) == parseCallArgumentsRest(r.p, Append(args, r.node))
    IN IF peekTokenIs(p, ",") THEN Round(parseExpression(nextToken(nextToken(p)), LOWEST))
       ELSE [p |-> p, args |-> args]

\* A nil slice of arguments is the empty sequence.
parseCallArguments(p) ==
    LET Closed(r, e) ==
            IF ~e.ok THEN [p |-> e.p, args |-> <<>>] ELSE [p |-> e.p, args |-> r.args]
        Listed(r) == Closed(r, expectPeek(r.p, ")"))
        First(r) == Listed(parseCallArgumentsRest(r.p, <<r.node>>))
    IN IF peekTokenIs(p, ")") THEN [p |-> nextToken(p), args |-> <<>>]
       ELSE First(parseExpression(nextToken(p), LOWEST))

parseCallExpression(p, function) ==
    LET Built(r) == [p |-> r.p, node |-> CallExpression(function, r.args)]
    IN Built(parseCallArguments(p))

\* The for loop of parseExpression, with leftExp parsed so far.
parseInfixLoop(p, precedence, leftExp) ==
    LET Round(r) == parseInfixLoop(r.p, precedence, r.node)
        Infix(q) == IF q.curToken.Type = "(" THEN parseCallExpression(q, leftExp)
                    ELSE parseInfixExpression(q, leftExp)
    IN IF ~peekTokenIs(p, ";") /\ precedence < peekPrecedence(p)
       THEN IF p.peekToken.Type \notin infixParseFns
            THEN [p |-> p, node |-> leftExp]
            ELSE Round(Infix(nextToken(p)))
       ELSE [p |-> p, node |-> leftExp]

parseExpression(p, precedence) ==
    LET Prefix(t) ==
            CASE t = "IDENT" -> parseIdentifier(p)
              [] t = "INT" -> parseIntegerLiteral(p)
              [] t \in {"!", "-"} -> parsePrefixExpression(p)
              [] t \in {"TRUE", "FALSE"} -> parseBoolean(p)
              [] t = "(" -> parseGroupedExpression(p)
              [] t = "IF" -> parseIfExpression(p)
              [] t = "FUNCTION" -> parseFunctionLiteral(p)
              [] t = "STRING" -> parseStringLiteral(p)
        Loop(left) == parseInfixLoop(left.p, precedence, left.node)
    IN IF p.curToken.Type \notin prefixParseFns
       THEN GaveUp(noPrefixParseFnError(p, p.curToken.Type))
       ELSE Loop(Prefix(p.curToken.Type))

\* The semicolon is left where it is.
EndOfStatementKept(p) == p

\* The end of a statement: the optional semicolon is consumed.
EndOfStatement(p) == IF peekTokenIs(p, ";") THEN nextToken(p) ELSE p

parseLetStatement(p) ==
    LET Built(name, r) == [p |-> EndOfStatement(r.p), node |-> LetStatement(name, r.node)]
        AfterAssign(name, e) ==
            IF ~e.ok THEN [p |-> e.p, node |-> NilLetStatement]
            ELSE Built(name, parseExpression(nextToken(e.p), LOWEST))
        AfterLet(e) ==
            IF ~e.ok THEN [p |-> e.p, node |-> NilLetStatement]
            ELSE AfterAssign(GoString(e.p.curToken.Literal), expectPeek(e.p, "="))
    IN AfterLet(expectPeek(p, "IDENT"))

parseReturnStatement(p) ==
    LET Built(r) == [p |-> EndOfStatement(r.p), node |-> ReturnStatement(r.node)]
    IN Built(parseExpression(nextToken(p), LOWEST))

parseExpressionStatement(p) ==
    LET Built(r) == [p |-> EndOfStatement(r.p), node |-> ExpressionStatement(r.node)]
    IN Built(parseExpression(p, LOWEST))

parseStatement(p) ==
    CASE p.curToken.Type = "LET" -> parseLetStatement(p)
      [] p.curToken.Type = "RETURN" -> parseReturnStatement(p)
      [] OTHER -> parseExpressionStatement(p)

\* One round of a statement loop (ParseProgram, parseBlockStatement): a
\* statement is parsed, appended unless the interface returned is nil, and the
\* parser advances by one token.
\* The round without its call of nextToken.
parseNextStatementNoAdvance(p, statements) ==
    LET Appended(r) ==
            [p |-> r.p,
             statements |-> IF r.node # NoNode THEN Append(statements, r.node)
                            ELSE statements]
    IN Appended(parseStatement(p))

parseNextStatement(p, statements) ==
    LET Appended(r) ==
            [p |-> nextToken(r.p),
             statements |-> IF r.node # NoNode THEN Append(statements, r.node)
                            ELSE statements]
    IN Appended(parseStatement(p))

parseBlockStatements(p, statements) ==
    LET Round(r) == parseBlockStatements(r.p, r.statements)
    IN IF ~curTokenIs(p, "}") /\ ~curTokenIs(p, "EOF")
       THEN Round(parseNextStatement(p, statements))
       ELSE [p |-> p, statements |-> statements]

parseBlockStatement(p) ==
    LET Built(r) == [p |-> r.p, node |-> BlockStatement(r.statements)]
    IN Built(parseBlockStatements(nextToken(p), <<>>))

\* The loop of ParseProgram, from a parser and the statements collected so far.
RECURSIVE ParseProgramFrom(_, _)
ParseProgramFrom(p, statements) ==
    LET Round(r) == ParseProgramFrom(r.p, r.statements)
    IN IF ~curTokenIs(p, "EOF") THEN Round(parseNextStatement(p, statements))
       ELSE [p |-> p, program |-> Program(statements)]

ParseProgram(p) == ParseProgramFrom(p, <<>>)

(***************************************************************************)
(* String() of the AST nodes (ast/ast.go): the text, or the nil            *)
(* dereference of a String() call on a nil node.                           *)
(***************************************************************************)
Text(s) == [str |-> s, panic |-> ""]
NoText == [str |-> "", panic |-> NilDeref]

\* Two writes to the same bytes.Buffer, one after the other.
Then(a, b) ==
    IF a.panic # "" THEN a ELSE IF b.panic # "" THEN b ELSE Text(a.str \o b.str)

\* strings.Join(elems, sep)
RECURSIVE Join(_, _)
Join(elems, sep) ==
    IF elems = <<>> THEN ""
    ELSE IF Len(elems) = 1 THEN elems[1]
    ELSE elems[1] \o sep \o Join(Tail(elems), sep)

RECURSIVE NodeString(_)
RECURSIVE StatementsString(_)
RECURSIVE ArgumentStrings(_)

\* The String() of each statement of a Program or block, written in order.
StatementsString(stmts) ==
    IF stmts = <<>> THEN Text("")
    ELSE Then(NodeString(Head(stmts)), StatementsString(Tail(stmts)))

\* The String() of each argument of a call: the list, or the first panic.
ArgumentStrings(args) ==
    IF args = <<>> THEN [strs |-> <<>>, panic |-> ""]
    ELSE LET a == NodeString(Head(args))
             rest == ArgumentStrings(Tail(args))
         IN IF a.panic # "" THEN [strs |-> <<>>, panic |-> a.panic]
            ELSE IF rest.panic # "" THEN rest
            ELSE [strs |-> <<a.str>> \o rest.strs, panic |-> ""]

NodeString(node) ==
    CASE node = NoNode -> NoText
      [] node = NilLetStatement -> NoText
      [] node = NilBlockStatement -> NoText
      [] node.t = "Program" -> StatementsString(node.stmts)
      [] node.t = "BlockStatement" -> StatementsString(node.stmts)
      [] node.t = "LetStatement" ->
           Then(Text("let " \o node.name \o " = "),
                Then(IF node.value # NoNode THEN NodeString(node.value) ELSE Text(""),
                     Text(";")))
      [] node.t = "ReturnStatement" ->
           Then(Text("return "),
                Then(IF node.value # NoNode THEN NodeString(node.value) ELSE Text(""),
                     Text(";")))
      [] node.t = "ExpressionStatement" ->
           IF node.expr # NoNode THEN NodeString(node.expr) ELSE Text("")
      [] node.t = "Identifier" -> Text(node.name)
      [] node.t = "Boolean" -> Text(IF node.b THEN "true" ELSE "false")
      [] node.t = "IntegerLiteral" -> Text(node.literal)
      [] node.t = "StringLiteral" -> Text(GoString(node.s))
      [] node.t = "PrefixExpression" ->
           Then(Text("(" \o node.op), Then(NodeString(node.right), Text(")")))
      [] node.t = "InfixExpression" ->
           Then(Text("("),
                Then(NodeString(node.left),
                     Then(Text(" " \o node.op \o " "),
                          Then(NodeString(node.right), Text(")")))))
      [] node.t = "IfExpression" ->
           Then(Text("if"),
                Then(NodeString(node.cond),
                     Then(Text(" "),
                          Then(NodeString(node.cons),
                               IF node.alt # NoNode
                               THEN Then(Text("else "), NodeString(node.alt))
                               ELSE Text("")))))
      [] node.t = "FunctionLiteral" ->
           Then(Text("fn(" \o Join(node.params, ", ") \o ") "), NodeString(node.body))
      [] node.t = "CallExpression" ->
           LET args == ArgumentStrings(node.args)
           IN Then(NodeString(node.fn),
                   IF args.panic # "" THEN NoText
                   ELSE Text("(" \o Join(args.strs, ", ") \o ")"))

(***************************************************************************)
(* Inspect() of the objects (object/object.go): the text, or the nil       *)
(* dereference of a method call on a nil Object or a nil Body.  A Hash     *)
(* ranges over a Go map, so its pairs come in any order: Inspects is the   *)
(* set of the outcomes a call can have.                                    *)
(***************************************************************************)
\* The orders in which a range over a map with the keys S can visit them.
Orders(S) ==
    {o \in [1..Cardinality(S) -> S] : \A i, j \in 1..Cardinality(S) : o[i] = o[j] => i = j}

\* fmt.Sprintf("%s: %s", key, value) for each pair of a list key, value, key, value ...
RECURSIVE PairStrings(_)
PairStrings(strs) ==
    IF strs = <<>> THEN <<>>
    ELSE <<strs[1] \o ": " \o strs[2]>> \o PairStrings(Tail(Tail(strs)))

RECURSIVE Inspects(_)
RECURSIVE InspectsEach(_)

\* Inspect() of each object of a list in order: the texts, or the first panic.
InspectsEach(objs) ==
    IF objs = <<>> THEN {[strs |-> <<>>, panic |-> ""]}
    ELSE {IF a.panic # "" THEN [strs |-> <<>>, panic |-> a.panic]
          ELSE IF rest.panic # "" THEN rest
          ELSE [strs |-> <<a.str>> \o rest.strs, panic |-> ""] :
             a \in Inspects(Head(objs)), rest \in InspectsEach(Tail(objs))}

Inspects(obj) ==
    CASE obj = NIL -> {NoText}
      [] obj.type = "INTEGER" -> {Text(ToString(obj.int))}
      [] obj.type = "BOOLEAN" -> {Text(IF obj.b THEN "true" ELSE "false")}
      [] obj.type = "STRING" -> {Text(GoString(obj.str))}
      [] obj.type = "NULL" -> {Text("null")}
      [] obj.type = "RETURN_VALUE" -> Inspects(obj.inner)
      [] obj.type = "ERROR" -> {Text("ERROR: " \o obj.msg)}
      [] obj.type = "FUNCTION" ->
           {Then(Text("fn(" \o Join(obj.params, ", ") \o ") {\\x0a"),
                 Then(NodeString(obj.body), Text("\\x0a}")))}
      [] obj.type = "BUILTIN" -> {Text("builtin function")}
      [] obj.type = "ARRAY" ->
           {IF each.panic # "" THEN NoText ELSE Text("[" \o Join(each.strs, ", ") \o "]") :
              each \in InspectsEach(obj.elems)}
      [] obj.type = "HASH" ->
           LET InOrder(o) ==
                   InspectsEach([i \in 1..(2 * Len(o)) |->
                                   IF i % 2 = 1 THEN obj.pairs[o[(i + 1) \div 2]].key
                                   ELSE obj.pairs[o[i \div 2]].value])
           IN UNION {{IF each.panic # "" THEN NoText
                      ELSE Text("{" \o Join(PairStrings(each.strs), ", ") \o "}") :
                         each \in InOrder(o)} : o \in Orders(DOMAIN obj.pairs)}

(***************************************************************************)
(* Inputs: programs as the parser builds them (no diagnostics), each       *)
(* with its sloth source.  Shorthands for the commonest nodes first.       *)
(***************************************************************************)
Num(v) == IntegerLiteral(v)
Var(name) == Identifier(name)
Stmt(e) == ExpressionStatement(e)
Block(stmts) == BlockStatement(stmts)
Fn(params, stmts) == FunctionLiteral(params, BlockStatement(stmts))
Call(name, args) == CallExpression(Identifier(name), args)
If(cond, stmts) == IfExpression(cond, BlockStatement(stmts), NoNode)
IfElse(cond, stmts, alts) == IfExpression(cond, BlockStatement(stmts), BlockStatement(alts))
Let(name, e) == LetStatement(name, e)
Str(s) == StringLiteral(s)

\* let a = 1; let b = nope; let c = 3; c
ProgErrLet ==
    Program(<<Let("a", Num(1)), Let("b", Var("nope")), Let("c", Num(3)), Stmt(Var("c"))>>)

\* let f = fn(x) { let q = x; q }; nope + f(1); let c = 3
ProgErrInfix ==
    Program(<<Let("f", Fn(<<"x">>, <<Let("q", Var("x")), Stmt(Var("q"))>>)),
              Stmt(InfixExpression("+", Var("nope"), Call("f", <<Num(1)>>))),
              Let("c", Num(3))>>)

\* let f = fn(a, b) { a }; f(nope, f(1, 2)); let c = 3
ProgErrArg ==
    Program(<<Let("f", Fn(<<"a", "b">>, <<Stmt(Var("a"))>>)),
              Stmt(Call("f", <<Var("nope"), Call("f", <<Num(1), Num(2)>>)>>)),
              Let("c", Num(3))>>)

\* let f = fn() { if (true) { nope; let z = 1 }; let y = 2 }; f(); let c = 3
ProgErrBlock ==
    Program(<<Let("f", Fn(<<>>, <<Stmt(If(Boolean(TRUE),
                                          <<Stmt(Var("nope")), Let("z", Num(1))>>)),
                                 Let("y", Num(2))>>)),
              Stmt(Call("f", <<>>)),
              Let("c", Num(3))>>)

\* return -true; let c = 3
ProgErrReturn ==
    Program(<<ReturnStatement(PrefixExpression("-", Boolean(TRUE))), Let("c", Num(3))>>)

\* if (nope) { let a = 1 } else { let b = 2 }; [1, nope, zip]; 5
ProgErrIf ==
    Program(<<Stmt(IfElse(Var("nope"), <<Let("a", Num(1))>>, <<Let("b", Num(2))>>)),
              Stmt(ArrayLiteral(<<Num(1), Var("nope"), Var("zip")>>)), Stmt(Num(5))>>)

\* [1, nope, zip][0]
ProgErrArray ==
    Program(<<Stmt(IndexExpression(ArrayLiteral(<<Num(1), Var("nope"), Var("zip")>>), Num(0)))>>)

\* [1, 2][nope]; nope(1); 1(nope)
ProgErrIndex ==
    Program(<<Stmt(IndexExpression(ArrayLiteral(<<Num(1), Num(2)>>), Var("nope")))>>)

\* nope(1)
ProgErrCallee == Program(<<Stmt(Call("nope", <<Num(1)>>))>>)

\* let f = fn() { let x = if (true) { return 1 }; 2 }; f()
ProgRetLet ==
    Program(<<Let("f", Fn(<<>>, <<Let("x", If(Boolean(TRUE),
                                              <<ReturnStatement(Num(1))>>)),
                                 Stmt(Num(2))>>)),
              Stmt(Call("f", <<>>))>>)

\* (if (true) { return 1 }) + 1
ProgRetOperand ==
    Program(<<Stmt(InfixExpression("+", If(Boolean(TRUE), <<ReturnStatement(Num(1))>>),
                                   Num(1)))>>)

\* !(if (true) { return false })
ProgRetPrefix ==
    Program(<<Stmt(PrefixExpression("!", If(Boolean(TRUE),
                                            <<ReturnStatement(Boolean(FALSE))>>)))>>)

\* let id = fn(x) { x }; id(if (true) { return 1 })
ProgRetArg ==
    Program(<<Let("id", Fn(<<"x">>, <<Stmt(Var("x"))>>)),
              Stmt(Call("id", <<If(Boolean(TRUE), <<ReturnStatement(Num(1))>>)>>))>>)

\* return if (true) { return 1 };
ProgRetRet ==
    Program(<<ReturnStatement(If(Boolean(TRUE), <<ReturnStatement(Num(1))>>))>>)

\* let f = fn(x) { if (x) { if (x) { return 10; } let u = 1; return 1; } let v = 2; return 0; };
\* let a = f(true); let b = f(false); a + b
ProgNestedReturn ==
    Program(<<Let("f", Fn(<<"x">>,
                          <<Stmt(If(Var("x"),
                                    <<Stmt(If(Var("x"), <<ReturnStatement(Num(10))>>)),
                                      Let("u", Num(1)),
                                      ReturnStatement(Num(1))>>)),
                            Let("v", Num(2)),
                            ReturnStatement(Num(0))>>)),
              Let("a", Call("f", <<Boolean(TRUE)>>)),
              Let("b", Call("f", <<Boolean(FALSE)>>)),
              Stmt(InfixExpression("+", Var("a"), Var("b")))>>)

\* if (10 > 1) { if (10 > 1) { return 10; } return 1; } 7
ProgTopReturn ==
    Program(<<Stmt(If(InfixExpression(">", Num(10), Num(1)),
                      <<Stmt(If(InfixExpression(">", Num(10), Num(1)),
                                <<ReturnStatement(Num(10))>>)),
                        ReturnStatement(Num(1))>>)),
              Stmt(Num(7))>>)

\* let newCounter = fn() { let c = n; fn() { let c = c + 1; c } };
\* let counter = newCounter(); let a = counter(); let b = counter(); b
ProgCounter(n) ==
    Program(<<Let("newCounter",
                  Fn(<<>>, <<Let("c", Num(n)),
                             Stmt(Fn(<<>>, <<Let("c", InfixExpression("+", Var("c"), Num(1))),
                                             Stmt(Var("c"))>>))>>)),
              Let("counter", Call("newCounter", <<>>)),
              Let("a", Call("counter", <<>>)),
              Let("b", Call("counter", <<>>)),
              Stmt(Var("b"))>>)

\* let fib = fn(x) { if (x == 0) { 0 } else { if (x == 1) { 1 } else { fib(x - 1) + fib(x - 2) } } };
\* fib(n);
ProgFib(n) ==
    Program(<<Let("fib",
                  Fn(<<"x">>,
                     <<Stmt(IfElse(InfixExpression("==", Var("x"), Num(0)),
                                   <<Stmt(Num(0))>>,
                                   <<Stmt(IfElse(InfixExpression("==", Var("x"), Num(1)),
                                                 <<Stmt(Num(1))>>,
                                                 <<Stmt(InfixExpression("+",
                                                     Call("fib", <<InfixExpression("-", Var("x"), Num(1))>>),
                                                     Call("fib", <<InfixExpression("-", Var("x"), Num(2))>>)))>>))>>))>>)),
              Stmt(Call("fib", <<Num(n)>>))>>)

\* let f = fn() { y }; let y = 5; f()
ProgLateBind ==
    Program(<<Let("f", Fn(<<>>, <<Stmt(Var("y"))>>)), Let("y", Num(5)), Stmt(Call("f", <<>>))>>)

\* let x = 1; let f = fn() { x }; let g = fn(x) { f() }; g(2)
ProgLexical ==
    Program(<<Let("x", Num(1)), Let("f", Fn(<<>>, <<Stmt(Var("x"))>>)),
              Let("g", Fn(<<"x">>, <<Stmt(Call("f", <<>>))>>)),
              Stmt(Call("g", <<Num(2)>>))>>)

\* let sub = fn(a, b) { a - b }; sub(5, 3)
ProgPositional ==
    Program(<<Let("sub", Fn(<<"a", "b">>, <<Stmt(InfixExpression("-", Var("a"), Var("b")))>>)),
              Stmt(Call("sub", <<Num(5), Num(3)>>))>>)

\* if (true) { let a = 1 }; a
ProgBlockLet ==
    Program(<<Stmt(If(Boolean(TRUE), <<Let("a", Num(1))>>)), Stmt(Var("a"))>>)

\* let f = fn() { let z = 1; if (z == 1) { let w = 2 } else { let w = 3 }; w }; let r = f(); z
ProgBodyLet ==
    Program(<<Let("f", Fn(<<>>, <<Let("z", Num(1)),
                                 Stmt(IfElse(InfixExpression("==", Var("z"), Num(1)),
                                             <<Let("w", Num(2))>>, <<Let("w", Num(3))>>)),
                                 Stmt(Var("w"))>>)),
              Let("r", Call("f", <<>>)),
              Stmt(Var("z"))>>)

\* let f = fn(a, b) { let t = 1; a }; f(1)
ProgFewArgs ==
    Program(<<Let("f", Fn(<<"a", "b">>, <<Let("t", Num(1)), Stmt(Var("a"))>>)),
              Stmt(Call("f", <<Num(1)>>))>>)

\* let f = fn(a) { let t = 1; a }; f(1, 2)
ProgManyArgs ==
    Program(<<Let("f", Fn(<<"a">>, <<Let("t", Num(1)), Stmt(Var("a"))>>)),
              Stmt(Call("f", <<Num(1), Num(2)>>))>>)

\* let f = fn() { }; -f()
ProgNegEmptyBody ==
    Program(<<Let("f", Fn(<<>>, <<>>)), Stmt(PrefixExpression("-", Call("f", <<>>)))>>)

\* let f = fn() { let a = 1 }; f() + 1
ProgAddLetBody ==
    Program(<<Let("f", Fn(<<>>, <<Let("a", Num(1))>>)),
              Stmt(InfixExpression("+", Call("f", <<>>), Num(1)))>>)

\* let f = fn() { }; !f()
ProgBangEmptyBody ==
    Program(<<Let("f", Fn(<<>>, <<>>)), Stmt(PrefixExpression("!", Call("f", <<>>)))>>)

\* let f = fn() { }; f()(); 
ProgCallNil ==
    Program(<<Let("f", Fn(<<>>, <<>>)), Stmt(CallExpression(Call("f", <<>>), <<>>))>>)

\* let f = fn() { }; len(f()); {f(): 1}; [1][f()]
ProgLenNil ==
    Program(<<Let("f", Fn(<<>>, <<>>)), Stmt(Call("len", <<Call("f", <<>>)>>))>>)

\* let f = fn() { }; {f(): 1}
ProgHashNilKey ==
    Program(<<Let("f", Fn(<<>>, <<>>)), Stmt(HashLiteral(<< <<Call("f", <<>>), Num(1)>> >>))>>)

\* let f = fn() { }; [1][f()]
ProgIndexNil ==
    Program(<<Let("f", Fn(<<>>, <<>>)),
              Stmt(IndexExpression(ArrayLiteral(<<Num(1)>>), Call("f", <<>>)))>>)

\* {1: 10, 1: 20}[1]
ProgHashRepeat ==
    Program(<<Stmt(IndexExpression(HashLiteral(<< <<Num(1), Num(10)>>, <<Num(1), Num(20)>> >>),
                                   Num(1)))>>)

\* {a: 1, b: 2}
ProgHashErrors ==
    Program(<<Stmt(HashLiteral(<< <<Var("a"), Num(1)>>, <<Var("b"), Num(2)>> >>))>>)

\* let h = {1: 2, true: 3, "a": 4}; h["a"] + h[true] + h[1]; h[2]; h[fn() { }]
ProgHash ==
    Program(<<Let("h", HashLiteral(<< <<Num(1), Num(2)>>, <<Boolean(TRUE), Num(3)>>,
                                      <<Str(<<97>>), Num(4)>> >>)),
              Let("s", InfixExpression("+", IndexExpression(Var("h"), Str(<<97>>)),
                       InfixExpression("+", IndexExpression(Var("h"), Boolean(TRUE)),
                                       IndexExpression(Var("h"), Num(1))))),
              Let("m", IndexExpression(Var("h"), Num(2))),
              Stmt(IndexExpression(Var("h"), Fn(<<>>, <<>>)))>>)

\* {}; {[]: 1}
ProgHashUnusable ==
    Program(<<Stmt(HashLiteral(<<>>)), Stmt(HashLiteral(<< <<ArrayLiteral(<<>>), Num(1)>> >>))>>)

\* {1: nope}
ProgHashValueError == Program(<<Stmt(HashLiteral(<< <<Num(1), Var("nope")>> >>))>>)

\* let a = [1, 2 * 2, "a" + "b"]; let x = a[1]; let y = a[3]; let z = a[-1]; len(a[2]); 1[0]
ProgArray ==
    Program(<<Let("a", ArrayLiteral(<<Num(1), InfixExpression("*", Num(2), Num(2)),
                                      InfixExpression("+", Str(<<97>>), Str(<<98>>))>>)),
              Let("x", IndexExpression(Var("a"), Num(1))),
              Let("y", IndexExpression(Var("a"), Num(3))),
              Let("z", IndexExpression(Var("a"), PrefixExpression("-", Num(1)))),
              Let("n", Call("len", <<IndexExpression(Var("a"), Num(2))>>)),
              Stmt(IndexExpression(Num(1), Num(0)))>>)

\* len(); 
ProgLenNoArgs == Program(<<Stmt(Call("len", <<>>))>>)

\* len(1)
ProgLenInt == Program(<<Stmt(Call("len", <<Num(1)>>))>>)

\* 5(1)
ProgNotAFunction == Program(<<Stmt(CallExpression(Num(5), <<Num(1)>>))>>)

\* let f = fn() { f() }; f()
ProgLoop ==
    Program(<<Let("f", Fn(<<>>, <<Stmt(Call("f", <<>>))>>)), Stmt(Call("f", <<>>))>>)

\* the empty program
ProgEmpty == Program(<<>>)

\* return;                    (the Return statement has no value expression)
ProgBareReturn == Program(<<ReturnStatement(NoNode)>>)

\* fn() { return; }()
ProgBareReturnCall ==
    Program(<<Stmt(CallExpression(Fn(<<>>, <<ReturnStatement(NoNode)>>), <<>>))>>)

\* if (true) { return; }
ProgBareReturnIf == Program(<<Stmt(If(Boolean(TRUE), <<ReturnStatement(NoNode)>>))>>)

\* let len = 5; len
ProgShadowLen == Program(<<Let("len", Num(5)), Stmt(Var("len"))>>)

\* let f = fn(len) { len }; f(3)
ProgShadowLenLocal ==
    Program(<<Let("f", Fn(<<"len">>, <<Stmt(Var("len"))>>)), Stmt(Call("f", <<Num(3)>>))>>)

\* let x = 1; let y = 4; let f = fn(x) { let g = fn() { x + y }; g() }; f(2)
ProgShadowChain ==
    Program(<<Let("x", Num(1)), Let("y", Num(4)),
              Let("f", Fn(<<"x">>,
                          <<Let("g", Fn(<<>>, <<Stmt(InfixExpression("+", Var("x"), Var("y")))>>)),
                            Stmt(Call("g", <<>>))>>)),
              Stmt(Call("f", <<Num(2)>>))>>)

\* len("ab")
ProgLen == Program(<<Stmt(Call("len", <<Str(<<97, 98>>)>>))>>)

\* if (<c>) { 10 }
ProgIf(c) == Program(<<Stmt(If(c, <<Stmt(Num(10))>>))>>)

\* if (<c>) { 10 } else { 20 }
ProgIfElse(c) == Program(<<Stmt(IfElse(c, <<Stmt(Num(10))>>, <<Stmt(Num(20))>>))>>)

\* let s = "a"; s <op> s
ProgStringSelf(op) ==
    Program(<<Let("s", Str(<<97>>)), Stmt(InfixExpression(op, Var("s"), Var("s")))>>)

\* let f = fn() { }; f <op> f
ProgFunctionSelf(op) ==
    Program(<<Let("f", Fn(<<>>, <<>>)), Stmt(InfixExpression(op, Var("f"), Var("f")))>>)

\* let g = g + 1; g          (g is bound in the initial environment)
ProgPreset ==
    Program(<<Let("g", InfixExpression("+", Var("g"), Num(1))), Stmt(Var("g"))>>)

\* <a> <op> <b> for every operator and every pair of operand literals
InfixOperators == {"+", "-", "*", "/", "<", ">", "==", "!="}
OperandLiterals ==
    {Num(-7), Num(0), Num(2), Boolean(TRUE), Boolean(FALSE), Str(<<97>>),
     If(Boolean(FALSE), <<Stmt(Num(1))>>), Fn(<<>>, <<>>)}
ProgInfix(op, a, b) == Program(<<Stmt(InfixExpression(op, a, b))>>)

\* <op> <a> for both prefix operators
PrefixOperators == {"!", "-"}
ProgPrefix(op, a) == Program(<<Stmt(PrefixExpression(op, a))>>)

\* let a = [1, 2]; let b = push(a, 3);
ProgPush ==
    Program(<<Let("a", ArrayLiteral(<<Num(1), Num(2)>>)),
              Let("b", Call("push", <<Var("a"), Num(3)>>))>>)

\* let x = 1; let f = fn() { let x = 2; x }; let r = f(); x
ProgShadowOuter ==
    Program(<<Let("x", Num(1)),
              Let("f", Fn(<<>>, <<Let("x", Num(2)), Stmt(Var("x"))>>)),
              Let("r", Call("f", <<>>)),
              Stmt(Var("x"))>>)

\* (1 < 2) == true; let t = !(1 > 2); let a = [t, 1 != 1]; if (a[1]) { 0 } else { a[0] == t }
ProgBooleans ==
    Program(<<Stmt(InfixExpression("==", InfixExpression("<", Num(1), Num(2)), Boolean(TRUE))),
              Let("t", PrefixExpression("!", InfixExpression(">", Num(1), Num(2)))),
              Let("a", ArrayLiteral(<<Var("t"), InfixExpression("!=", Num(1), Num(1))>>)),
              Stmt(IfElse(IndexExpression(Var("a"), Num(1)),
                          <<Stmt(Num(0))>>,
                          <<Stmt(InfixExpression("==", IndexExpression(Var("a"), Num(0)),
                                                 Var("t")))>>))>>)

\* (1 < 2) == true
ProgLessIsTrue ==
    Program(<<Stmt(InfixExpression("==", InfixExpression("<", Num(1), Num(2)), Boolean(TRUE)))>>)

\* An if whose Consequence is a nil *ast.BlockStatement (a tree built by hand).
ProgNilConsequence == Program(<<Stmt(IfExpression(Boolean(TRUE), NoNode, NoNode))>>)

\* A call of a function literal whose Body is a nil *ast.BlockStatement.
ProgNilBody == Program(<<Stmt(CallExpression(FunctionLiteral(<<>>, NoNode), <<>>))>>)

Programs ==
    {ProgNilConsequence, ProgNilBody, ProgPush, ProgShadowOuter, ProgBooleans, ProgLessIsTrue, ProgErrLet, ProgErrInfix, ProgErrArg, ProgErrBlock, ProgErrReturn, ProgErrIf,
     ProgErrArray, ProgErrIndex, ProgErrCallee,
     ProgRetLet, ProgRetOperand, ProgRetPrefix, ProgRetArg, ProgRetRet,
     ProgNestedReturn, ProgTopReturn,
     ProgLateBind, ProgLexical, ProgPositional, ProgBlockLet, ProgBodyLet,
     ProgFewArgs, ProgManyArgs,
     ProgNegEmptyBody, ProgAddLetBody, ProgBangEmptyBody, ProgCallNil, ProgLenNil,
     ProgHashNilKey, ProgIndexNil,
     ProgHashRepeat, ProgHashErrors, ProgHash, ProgHashUnusable, ProgHashValueError,
     ProgBareReturn, ProgBareReturnCall, ProgBareReturnIf,
     ProgShadowLen, ProgShadowLenLocal, ProgShadowChain, ProgLen,
     ProgArray, ProgLenNoArgs, ProgLenInt, ProgNotAFunction, ProgLoop, ProgEmpty}
    \cup {ProgStringSelf(op) : op \in {"==", "!="}}
    \cup {ProgFunctionSelf(op) : op \in {"==", "!="}}
    \cup {ProgIf(c) : c \in OperandLiterals}
    \cup {ProgIfElse(c) : c \in OperandLiterals}
    \cup {ProgCounter(n) : n \in 0..MaxCounter}
    \cup {ProgFib(n) : n \in 0..MaxFib}
    \cup {ProgInfix(op, a, b) : op \in InfixOperators, a \in OperandLiterals, b \in OperandLiterals}
    \cup {ProgPrefix(op, a) : op \in PrefixOperators, a \in OperandLiterals}

\* Initial bindings of the global environment: none, or g = 7.
PresetId == BuiltinLen.id + 1
FirstRunId == PresetId + 1
PresetStore == ("g" :> Integer(7, PresetId))

Inputs ==
    {[program |-> p, store |-> EmptyStore] : p \in Programs}
    \cup {[program |-> p, store |-> PresetStore] : p \in {ProgPreset, ProgErrLet}}

(***************************************************************************)
(* Specifications.                                                         *)
(***************************************************************************)
NoOutcome == [status |-> "none", result |-> NIL, envs |-> <<>>, fault |-> ""]

Start(in) ==
    /\ input = in
    /\ ctrl = EvalC(in.program, 1)
    /\ kont = <<>>
    /\ envs = <<[store |-> in.store, outer |-> 0]>>
    /\ nextId = FirstRunId
    /\ status = "running"
    /\ result = NIL
    /\ fault = ""

\* No line is being parsed.
NoParser == [l |-> NewLexer(<<>>), errors |-> <<>>,
             curToken |-> Token("", <<>>), peekToken |-> Token("", <<>>)]

Init ==
    /\ \E in \in Inputs : Start(in)
    /\ run = 1
    /\ first = NoOutcome
    /\ stdin = <<>>
    /\ parser = NoParser
    /\ program = NoNode
    /\ lexer = NewLexer(<<>>)
    /\ tokens = <<>>

Next ==
    \/ EvalProgram \/ evalProgram
    \/ EvalBlockStatement \/ evalBlockStatement
    \/ EvalExpressionStatement
    \/ EvalReturnStatement \/ ReturnStatementValue
    \/ EvalLetStatement \/ LetStatementValue \/ EvalNil
    \/ EvalStringLiteral \/ EvalIntegerLiteral \/ EvalBoolean \/ EvalIdentifier
    \/ EvalPrefixExpression \/ PrefixExpressionRight
    \/ EvalInfixExpression \/ InfixExpressionLeft \/ InfixExpressionRight
    \/ EvalIfExpression \/ evalIfExpression
    \/ EvalFunctionLiteral
    \/ EvalCallExpression \/ CallExpressionFunction \/ CallExpressionArguments
    \/ applyFunctionBody
    \/ EvalArrayLiteral \/ ArrayLiteralElements
    \/ EvalHashLiteral \/ evalHashLiteralKey \/ evalHashLiteralValue
    \/ EvalIndexExpression \/ IndexExpressionLeft \/ IndexExpressionIndex

Spec == Init /\ [][Next]_vars

\* The same Program evaluated a second time against a fresh environment with
\* the same initial bindings.
Rerun ==
    /\ status \in {"done", "panic"}
    /\ run = 1
    /\ run' = 2
    /\ first' = [status |-> status, result |-> result, envs |-> envs, fault |-> fault]
    /\ input' = input
    /\ ctrl' = EvalC(input.program, 1)
    /\ kont' = <<>>
    /\ envs' = <<[store |-> input.store, outer |-> 0]>>
    /\ nextId' = FirstRunId
    /\ status' = "running"
    /\ result' = NIL
    /\ fault' = ""
    /\ UNCHANGED replVars

NextTwice == Next \/ Rerun

SpecTwice == Init /\ [][NextTwice]_vars

(***************************************************************************)
(* Properties.                                                             *)
(***************************************************************************)
Done == status = "done"
(***************************************************************************)
(* The REPL (repl.Start): one environment for the session; each line of    *)
(* standard input is lexed, parsed and, when the parser recorded no        *)
(* diagnostic, evaluated in that environment.  The text written to the     *)
(* output is not part of the state.                                        *)
(***************************************************************************)
evalVars == <<input, ctrl, kont, envs, nextId, result, fault, run, first>>

\* Scan with env := object.NewEnvironment() inside the loop: every line gets
\* a new environment.
ScanNewEnvironment ==
    /\ status = "prompt"
    /\ stdin # <<>>
    /\ parser' = NewParser(NewLexer(Head(stdin)))
    /\ program' = Program(<<>>)
    /\ stdin' = Tail(stdin)
    /\ status' = "parsing"
    /\ envs' = <<NewEnvironment>>
    /\ UNCHANGED <<input, ctrl, kont, nextId, result, fault, run, first>>
    /\ UNCHANGED lexVars

\* scanner.Scan() delivered a line: a lexer and a parser are made for it.
Scan ==
    /\ status = "prompt"
    /\ stdin # <<>>
    /\ parser' = NewParser(NewLexer(Head(stdin)))
    /\ program' = Program(<<>>)
    /\ stdin' = Tail(stdin)
    /\ status' = "parsing"
    /\ UNCHANGED evalVars
    /\ UNCHANGED lexVars

\* scanner.Scan() reports the end of the input: Start returns.
ScanEOF ==
    /\ status = "prompt"
    /\ stdin = <<>>
    /\ status' = "exit"
    /\ UNCHANGED evalVars
    /\ UNCHANGED replVars

\* One round of the loop of ParseProgram.
ParseProgramStep ==
    /\ status = "parsing"
    /\ ~curTokenIs(parser, "EOF")
    /\ LET Round(r) == parser' = r.p /\ program' = Program(r.statements)
       IN Round(parseNextStatement(parser, program.stmts))
    /\ UNCHANGED <<status, stdin>>
    /\ UNCHANGED evalVars
    /\ UNCHANGED lexVars

\* ParseProgram returned and Eval(program, env) is called, whatever the
\* parser recorded.
ParseProgramDoneAlwaysEval ==
    /\ status = "parsing"
    /\ curTokenIs(parser, "EOF")
    /\ status' = "running"
    /\ input' = [program |-> program, store |-> envs[1].store]
    /\ ctrl' = EvalC(program, 1)
    /\ kont' = <<>>
    /\ result' = NIL
    /\ UNCHANGED <<envs, nextId, fault, run, first>>
    /\ UNCHANGED replVars

\* ParseProgram returned: with diagnostics they are printed and the loop
\* continues, without them Eval(program, env) is called.
ParseProgramDone ==
    /\ status = "parsing"
    /\ curTokenIs(parser, "EOF")
    /\ IF Len(parser.errors) # 0
       THEN /\ status' = "prompt"
            /\ UNCHANGED <<input, ctrl, kont, result>>
       ELSE /\ status' = "running"
            /\ input' = [program |-> program, store |-> envs[1].store]
            /\ ctrl' = EvalC(program, 1)
            /\ kont' = <<>>
            /\ result' = NIL
    /\ UNCHANGED <<envs, nextId, fault, run, first>>
    /\ UNCHANGED replVars

\* Eval returned: its result, when not nil, is written and the loop continues;
\* a panic of evaluated.Inspect() ends the process.
PrintEvaluated ==
    /\ status = "done"
    /\ \E shown \in (IF result # NIL THEN Inspects(result) ELSE {Text("")}) :
         IF shown.panic # ""
         THEN /\ status' = "panic"
              /\ fault' = shown.panic
              /\ UNCHANGED <<input, ctrl, kont, envs, nextId, result, run, first>>
         ELSE /\ status' = "prompt"
              /\ UNCHANGED evalVars
    /\ UNCHANGED replVars

(***************************************************************************)
(* Lines typed at the prompt, as bytes.                                    *)
(***************************************************************************)
Space == <<32>>
Semicolon == <<59>>

\* The source text of an infix operator.
OpBytes(op) ==
    CASE op = "+" -> <<43>>
      [] op = "-" -> <<45>>
      [] op = "*" -> <<42>>
      [] op = "/" -> <<47>>
      [] op = "<" -> <<60>>
      [] op = ">" -> <<62>>
      [] op = "==" -> <<61, 61>>
      [] op = "!=" -> <<33, 61>>
      [] op = "!" -> <<33>>

\* 1 <op1> 2 <op2> 3
SrcChain(op1, op2) ==
    <<49>> \o Space \o OpBytes(op1) \o Space \o <<50>> \o Space \o OpBytes(op2)
        \o Space \o <<51>>

\* (1 <op1> 2) <op2> 3
SrcGroupLeft(op1, op2) ==
    <<40, 49>> \o Space \o OpBytes(op1) \o Space \o <<50, 41>> \o Space \o OpBytes(op2)
        \o Space \o <<51>>

\* 1 <op1> (2 <op2> 3)
SrcGroupRight(op1, op2) ==
    <<49>> \o Space \o OpBytes(op1) \o Space \o <<40, 50>> \o Space \o OpBytes(op2)
        \o Space \o <<51, 41>>

\* <pre>1 <op> 2
SrcPrefixChain(pre, op) ==
    OpBytes(pre) \o <<49>> \o Space \o OpBytes(op) \o Space \o <<50>>

\* 1 <op> len("ab")
SrcCallChain(op) ==
    <<49>> \o Space \o OpBytes(op) \o Space \o <<108, 101, 110, 40, 34, 97, 98, 34, 41>>

\* -len("ab")
SrcPrefixCall == <<45, 108, 101, 110, 40, 34, 97, 98, 34, 41>>
\* !-1
SrcPrefixPrefix == <<33, 45, 49>>
\* return;
SrcBareReturn == <<114, 101, 116, 117, 114, 110, 59>>
\* fn() { return; }()
SrcBareReturnCall == <<102, 110, 40, 41, 32, 123, 32, 114, 101, 116, 117, 114, 110, 59, 32, 125, 40, 41>>
\* if (true) { return; }
SrcBareReturnIf == <<105, 102, 32, 40, 116, 114, 117, 101, 41, 32, 123, 32, 114, 101, 116, 117, 114, 110, 59, 32, 125>>

OperatorLines ==
    {SrcChain(op1, op2) : op1 \in InfixOperators, op2 \in InfixOperators}
    \cup {SrcGroupLeft(op1, op2) : op1 \in InfixOperators, op2 \in InfixOperators}
    \cup {SrcGroupRight(op1, op2) : op1 \in InfixOperators, op2 \in InfixOperators}
    \cup {SrcPrefixChain(pre, op) : pre \in PrefixOperators, op \in InfixOperators}
    \cup {SrcCallChain(op) : op \in InfixOperators}
    \cup {SrcPrefixCall, SrcPrefixPrefix}

BareReturnLines == {SrcBareReturn, SrcBareReturnCall, SrcBareReturnIf}

\* A piece of source with the node it stands for.
Fragment(text, node) == [src |-> text, node |-> node]

\* Well-formed expressions.
Expressions ==
    {Fragment(<<53>>, Num(5)),                                   \* 5
     Fragment(<<121>>, Var("y")),                                \* y
     Fragment(<<49, 32, 43, 32, 50, 32, 42, 32, 51>>,
              InfixExpression("+", Num(1), InfixExpression("*", Num(2), Num(3)))),
                                                                 \* 1 + 2 * 3
     Fragment(<<102, 110, 40, 97, 41, 32, 123, 32, 97, 32, 125>>,
              Fn(<<"a">>, <<Stmt(Var("a"))>>)),                  \* fn(a) { a }
     Fragment(<<97, 100, 100, 40, 49, 44, 32, 50, 41>>,
              Call("add", <<Num(1), Num(2)>>))}                  \* add(1, 2)

\* The identifier of the i-th let statement of a line.
LetNames == <<Fragment(<<120>>, "x"), Fragment(<<121>>, "y"),
              Fragment(<<102, 111, 111, 98, 97, 114>>, "foobar")>>
LetName(i) == LetNames[((i - 1) % Len(LetNames)) + 1]

\* let <identifier> = <expression>, with its semicolon or without it
LetFragment(i, e, semi) ==
    Fragment(<<108, 101, 116, 32>> \o LetName(i).src \o <<32, 61, 32>> \o e.src
                 \o (IF semi THEN Semicolon ELSE <<>>),
             Let(LetName(i).node, e.node))

\* return <expression>;
ReturnFragment(e) ==
    Fragment(<<114, 101, 116, 117, 114, 110, 32>> \o e.src \o Semicolon, ReturnStatement(e.node))

\* The source of a sequence of fragments: their texts, a space between two.
RECURSIVE JoinSrc(_)
JoinSrc(fs) ==
    IF fs = <<>> THEN <<>>
    ELSE IF Len(fs) = 1 THEN fs[1].src
    ELSE fs[1].src \o Space \o JoinSrc(Tail(fs))

\* The nodes of a sequence of fragments.
Nodes(fs) == [i \in 1..Len(fs) |-> fs[i].node]

\* The sequences of 1..MaxStatements fragments, the i-th drawn from At(i).
FragmentSeqs(At(_)) ==
    UNION {{fs \in [1..n -> UNION {At(i) : i \in 1..n}] : \A i \in 1..n : fs[i] \in At(i)}
           : n \in 1..MaxStatements}

LetFragmentsAt(i) == {LetFragment(i, e, semi) : e \in Expressions, semi \in BOOLEAN}
ReturnFragmentsAt(i) == {ReturnFragment(e) : e \in Expressions}

LetPrograms == FragmentSeqs(LetFragmentsAt)
ReturnPrograms == FragmentSeqs(ReturnFragmentsAt)

\* Statements that are malformed, each ended by its semicolon; the node is
\* of no interest.
LetWithoutAssign == Fragment(<<108, 101, 116, 32, 120, 32, 53, 59>>, NoNode)              \* let x 5;
LetWithoutName == Fragment(<<108, 101, 116, 32, 61, 32, 49, 48, 59>>, NoNode)           \* let = 10;
LetInteger == Fragment(<<108, 101, 116, 32, 49, 50, 51, 52, 53, 59>>, NoNode)          \* let 12345;
MissingOperand == Fragment(<<108, 101, 116, 32, 121, 32, 61, 32, 49, 32, 43, 32, 59>>, NoNode)
                                                                        \* let y = 1 + ;
IntegerParameter == Fragment(<<108, 101, 116, 32, 102, 32, 61, 32, 102, 110, 40, 49, 41, 32, 123, 32, 49, 32, 125, 59>>, NoNode)
                                                                 \* let f = fn(1) { 1 };
UnclosedBlock == Fragment(<<105, 102, 32, 40, 120, 41, 32, 123, 32, 49, 59>>, NoNode)             \* if (x) { 1;
OpenParameters == Fragment(<<108, 101, 116, 32, 120, 32, 61, 32, 102, 110, 40, 97, 44>>, NoNode)   \* let x = fn(a,
Malformed ==
    {LetWithoutAssign, LetWithoutName, LetInteger, MissingOperand, IntegerParameter,
     UnclosedBlock, OpenParameters}

\* Well-formed statements.
LetA == Fragment(<<108, 101, 116, 32, 97, 32, 61, 32, 49, 59>>, Let("a", Num(1)))          \* let a = 1;
Foo == Fragment(<<102, 111, 111, 59>>, Stmt(Var("foo")))                           \* foo;
MinusFive == Fragment(<<45, 53, 59>>, Stmt(PrefixExpression("-", Num(5))))     \* -5;
WellFormed == {LetA, Foo, MinusFive}

MixedFragmentsAt(i) == Malformed \cup WellFormed
MixedPrograms == FragmentSeqs(MixedFragmentsAt)

\* let a = 1;
SrcLetA == <<108, 101, 116, 32, 97, 32, 61, 32, 49, 59>>
\* let b 2;
SrcLetBroken == <<108, 101, 116, 32, 98, 32, 50, 59>>
\* a
SrcA == <<97>>
\* let add = fn(a, b) { if (a < b) { return a + b; } else { "no" } };
SrcLetAdd == <<108, 101, 116, 32, 97, 100, 100, 32, 61, 32, 102, 110, 40, 97, 44, 32, 98, 41, 32, 123, 32, 105, 102, 32, 40, 97, 32, 60, 32, 98, 41, 32, 123, 32, 114, 101, 116, 117, 114, 110, 32, 97, 32, 43, 32, 98, 59, 32, 125, 32, 101, 108, 115, 101, 32, 123, 32, 34, 110, 111, 34, 32, 125, 32, 125, 59>>
\* add(1, 2 * 3)
SrcCallAdd == <<97, 100, 100, 40, 49, 44, 32, 50, 32, 42, 32, 51, 41>>
\* !true
SrcNotTrue == <<33, 116, 114, 117, 101>>

\* let x 5; let = 10; let 12345;   and the same before let a = 1;
LetErrors == <<LetWithoutAssign, LetWithoutName, LetInteger>>
LetErrorsThenLet == <<LetWithoutAssign, LetWithoutName, LetInteger, LetA>>

\* "ab   and   let s = "ab   : a string literal without its closing quote.
SrcUnterminated == <<34, 97, 98>>
SrcLetUnterminated == <<108, 101, 116, 32, 115, 32, 61, 32, 34, 97, 98>>
UnterminatedLines == {SrcUnterminated, SrcLetUnterminated}

\* [1,2,3][5]   and   {"a":1,"b":2}["a"]
SrcArrayIndex == <<91, 49, 44, 50, 44, 51, 93, 91, 53, 93>>
SrcHashIndex == <<123, 34, 97, 34, 58, 49, 44, 34, 98, 34, 58, 50, 125, 91, 34, 97, 34, 93>>
IndexLines == {SrcArrayIndex, SrcHashIndex}

\* Lines with unclosed braces and parentheses and with illegal bytes.
\* fn(x) { x + 1
SrcUnclosedBrace == <<102, 110, 40, 120, 41, 32, 123, 32, 120, 32, 43, 32, 49>>
\* (1 + 2
SrcUnclosedParen == <<40, 49, 32, 43, 32, 50>>
\* if (x < 1 { 1 } else {
SrcUnclosedIf == <<105, 102, 32, 40, 120, 32, 60, 32, 49, 32, 123, 32, 49, 32, 125, 32, 101, 108, 115, 101, 32, 123>>
\* 1 @ 2 # 3
SrcIllegalBytes == <<49, 32, 64, 32, 50, 32, 35, 32, 51>>
\* add(1, 2
SrcUnclosedCall == <<97, 100, 100, 40, 49, 44, 32, 50>>
\* let f = fn(a,
SrcUnclosedParameters == <<108, 101, 116, 32, 102, 32, 61, 32, 102, 110, 40, 97, 44>>
UnclosedLines ==
    {SrcUnclosedBrace, SrcUnclosedParen, SrcUnclosedIf, SrcIllegalBytes, SrcUnclosedCall, SrcUnclosedParameters}

\* A session of six lines: a let, an Error in mid-line, a line with a
\* diagnostic, a return in mid-line, a let in the block of an if, and a use
\* of the bindings.
\* let b = a + 1; nope; let c = 3;
SrcLetBThenError == <<108, 101, 116, 32, 98, 32, 61, 32, 97, 32, 43, 32, 49, 59, 32, 110, 111, 112, 101, 59, 32, 108, 101, 116, 32, 99, 32, 61, 32, 51, 59>>
\* let d = b; return d; let e = 6;
SrcLetDThenReturn == <<108, 101, 116, 32, 100, 32, 61, 32, 98, 59, 32, 114, 101, 116, 117, 114, 110, 32, 100, 59, 32, 108, 101, 116, 32, 101, 32, 61, 32, 54, 59>>
\* a + b + d
SrcSum == <<97, 32, 43, 32, 98, 32, 43, 32, 100>>
\* if (true) { let z = 9 }
SrcLetInBlock == <<105, 102, 32, 40, 116, 114, 117, 101, 41, 32, 123, 32, 108, 101, 116, 32, 122, 32, 61, 32, 57, 32, 125>>
\* return if (true) { return fn(){}() }
SrcReturnOfNothing == <<114, 101, 116, 117, 114, 110, 32, 105, 102, 32, 40, 116, 114, 117, 101, 41, 32, 123, 32, 114, 101, 116, 117, 114, 110, 32, 102, 110, 40, 41, 123, 125, 40, 41, 32, 125>>
\* 5
SrcFive == <<53>>
\* fn(x) { x }
SrcFunction == <<102, 110, 40, 120, 41, 32, 123, 32, 120, 32, 125>>
\* a, the two bytes of e with an acute accent in UTF-8, b
SrcNonAscii == <<97, 32, 195, 169, 32, 98>>
\* a backquote
SrcBackquote == <<96>>
LetSession ==
    <<SrcLetA, SrcLetBThenError, SrcLetBroken, SrcLetDThenReturn, SrcLetInBlock, SrcSum>>

\* What is typed in a session: the lines, in order.
Sessions ==
    {<<line>> : line \in OperatorLines \cup BareReturnLines}
    \cup {<<JoinSrc(LetErrors)>>, <<JoinSrc(LetErrorsThenLet)>>}
    \cup {<<JoinSrc(fs)>> : fs \in LetPrograms \cup ReturnPrograms \cup MixedPrograms}
    \cup {<<SrcLetA, SrcLetBroken, SrcA>>, <<SrcLetAdd, SrcCallAdd, SrcNotTrue>>, <<>>}
    \cup {<<line>> : line \in UnterminatedLines}
    \cup {<<line>> : line \in IndexLines}
    \cup {<<line>> : line \in UnclosedLines}
    \cup {LetSession}
    \cup {<<SrcReturnOfNothing, SrcFive>>, <<SrcFunction, SrcFive>>, <<SrcNonAscii>>, <<SrcBackquote>>}

\* Start: env := object.NewEnvironment(), then the first prompt.
ReplInit ==
    /\ stdin \in Sessions
    /\ parser = NoParser
    /\ program = NoNode
    /\ lexer = NewLexer(<<>>)
    /\ tokens = <<>>
    /\ status = "prompt"
    /\ input = [program |-> NoNode, store |-> EmptyStore]
    /\ ctrl = RetC(NIL)
    /\ kont = <<>>
    /\ envs = <<NewEnvironment>>
    /\ nextId = FirstRunId
    /\ result = NIL
    /\ fault = ""
    /\ run = 1
    /\ first = NoOutcome

\* The steps of Eval that a parsed line can take: the parser builds no
\* array, hash or index node and none with a nil part.
NextRepl ==
    \/ Scan \/ ScanEOF \/ ParseProgramStep \/ ParseProgramDone \/ PrintEvaluated
    \/ EvalProgram \/ evalProgram
    \/ EvalBlockStatement \/ evalBlockStatement
    \/ EvalExpressionStatement
    \/ EvalReturnStatement \/ ReturnStatementValue
    \/ EvalLetStatement \/ LetStatementValue
    \/ EvalStringLiteral \/ EvalIntegerLiteral \/ EvalBoolean \/ EvalIdentifier
    \/ EvalPrefixExpression \/ PrefixExpressionRight
    \/ EvalInfixExpression \/ InfixExpressionLeft \/ InfixExpressionRight
    \/ EvalIfExpression \/ evalIfExpression
    \/ EvalFunctionLiteral
    \/ EvalCallExpression \/ CallExpressionFunction \/ CallExpressionArguments
    \/ applyFunctionBody

SpecRepl == ReplInit /\ [][NextRepl]_vars

\* The loop of ParseProgram can take a round: for !p.curTokenIs(token.EOF).
RoundPossible == status = "parsing" /\ ~curTokenIs(parser, "EOF")

\* ParseProgram runs its loop to the end once it is called: a round that can
\* be taken is taken, and the function returns when the loop ends.  The
\* second conjunct is WF_vars(ParseProgramStep), with the loop condition for
\* ENABLED <<ParseProgramStep>>_vars.
SpecReplFair ==
    /\ SpecRepl
    /\ WF_vars(ParseProgramDone)
    /\ ([]<>(~RoundPossible) \/ []<><<ParseProgramStep>>_vars)

(***************************************************************************)
(* The lexer on its own: New(input), then NextToken called again and       *)
(* again, also after it returned EOF.  The inputs are all the byte         *)
(* sequences of up to MaxInput bytes over LexBytes, and the texts of the   *)
(* lexer test.                                                             *)
(***************************************************************************)
MaxInput == 3
MaxEOF == 3

\* NUL, ' ', '!', '"', '1', '=', 'f', 'i', and 0xC8, a byte above 127
LexBytes == {0, 32, 33, 34, 49, 61, 102, 105, 200}

RECURSIVE BytesUpTo(_)
BytesUpTo(n) ==
    IF n = 0 THEN {<<>>}
    ELSE LET shorter == BytesUpTo(n - 1)
         IN shorter \cup {Append(t, c) : t \in {u \in shorter : Len(u) = n - 1}, c \in LexBytes}

\* =+(){},;
SrcBasic == <<61, 43, 40, 41, 123, 125, 44, 59>>
\* let five = 5;
SrcLetFive == <<108, 101, 116, 32, 102, 105, 118, 101, 32, 61, 32, 53, 59>>
\* !-/*5; 5 < 10 > 5;
SrcOperators == <<33, 45, 47, 42, 53, 59, 32, 53, 32, 60, 32, 49, 48, 32, 62, 32, 53, 59>>
\* if (5 < 10) { return true; } else { return false; }
SrcIfElse == <<105, 102, 32, 40, 53, 32, 60, 32, 49, 48, 41, 32, 123, 32, 114, 101, 116, 117, 114, 110, 32, 116, 114, 117, 101, 59, 32, 125, 32, 101, 108, 115, 101, 32, 123, 32, 114, 101, 116, 117, 114, 110, 32, 102, 97, 108, 115, 101, 59, 32, 125>>
\* 10 == 10; 10 != 9;
SrcEquality == <<49, 48, 32, 61, 61, 32, 49, 48, 59, 32, 49, 48, 32, 33, 61, 32, 57, 59>>
\* let add_two = fn(x, y) { x + y; };
SrcSnakeCase == <<108, 101, 116, 32, 97, 100, 100, 95, 116, 119, 111, 32, 61, 32, 102, 110, 40, 120, 44, 32, 121, 41, 32, 123, 32, 120, 32, 43, 32, 121, 59, 32, 125, 59>>

TestTexts == {SrcBasic, SrcLetFive, SrcOperators, SrcIfElse, SrcEquality, SrcSnakeCase}

LexInputs == BytesUpTo(MaxInput) \cup TestTexts

\* The EOF tokens among those returned so far.
EOFCount == Cardinality({i \in DOMAIN tokens : tokens[i].Type = "EOF"})

LexInit ==
    /\ lexer \in {NewLexer(text) : text \in LexInputs}
    /\ tokens = <<>>
    /\ stdin = <<>>
    /\ parser = NoParser
    /\ program = NoNode
    /\ status = "lexing"
    /\ input = [program |-> NoNode, store |-> EmptyStore]
    /\ ctrl = RetC(NIL)
    /\ kont = <<>>
    /\ envs = <<NewEnvironment>>
    /\ nextId = FirstRunId
    /\ result = NIL
    /\ fault = ""
    /\ run = 1
    /\ first = NoOutcome

\* tok := l.NextToken()
CallNextToken ==
    /\ status = "lexing"
    /\ EOFCount < MaxEOF
    /\ LET Returned(r) == lexer' = r.l /\ tokens' = Append(tokens, r.tok)
       IN Returned(NextToken(lexer))
    /\ UNCHANGED <<stdin, parser, program, status>>
    /\ UNCHANGED evalVars

NextLexer == CallNextToken

SpecLexer == LexInit /\ [][NextLexer]_vars

Ran(p) == Done /\ input.program = p
Global == envs[1].store
IsReturnValue(obj) == obj # NIL /\ obj.type = "RETURN_VALUE"
IsInteger(obj, v) == obj # NIL /\ obj.type = "INTEGER" /\ obj.int = v
IsErrorMessage(obj, msg) == isError(obj) /\ obj.msg = msg

\* An Error object has just been produced or is being handed to the caller.
ErrorInFlight == Running /\ ctrl.mode = "ret" /\ isError(ctrl.val)

\* C1: once evaluating any statement or sub-expression has produced an Error,
\* every further step only hands that same Error object to the caller: nothing
\* else is evaluated, no object is allocated, no environment changes (so no
\* later let binds anything), the evaluator does not fault, and Eval returns
\* that Error.
C1_ErrorPropagatesUntouched ==
    [][ErrorInFlight =>
         /\ ctrl'.mode = "ret"
         /\ ctrl'.val = ctrl.val
         /\ envs' = envs
         /\ nextId' = nextId
         /\ Len(kont') < Len(kont)
         /\ status' # "panic"
         /\ (status' = "done" => result' = ctrl.val)]_vars

\* let a = 1; let b = nope; let c = 3; c has returned the Error of its second
\* statement and c was never bound.
C1_Witness ==
    /\ Ran(ProgErrLet)
    /\ IsErrorMessage(result, "identifier not found: nope")
    /\ DOMAIN Global = {"a"}

\* C2: the ReturnValue marker is never observable: no environment binds a name
\* to a ReturnValue, no operand of a prefix or infix operator and no call
\* argument is a ReturnValue, and Eval(Program) never returns one.
C2_ReturnValueNeverObservable ==
    /\ \A e \in 1..Len(envs) : \A n \in DOMAIN envs[e].store :
         ~IsReturnValue(envs[e].store[n])
    /\ \A i \in 1..Len(kont) :
         /\ kont[i].k = "InfixRight" => ~IsReturnValue(kont[i].left)
         /\ kont[i].k = "CallArguments" =>
              \A j \in 1..Len(kont[i].acc) : ~IsReturnValue(kont[i].acc[j])
         /\ kont[i].k = "applyFunction" =>
              \A j \in 1..Len(kont[i].args) : ~IsReturnValue(kont[i].args[j])
    /\ (/\ Running /\ ctrl.mode = "ret" /\ kont # <<>>
        /\ Head(kont).k \in {"PrefixExpression", "InfixLeft", "InfixRight", "CallArguments"})
       => ~IsReturnValue(ctrl.val)
    /\ Done => ~IsReturnValue(result)

\* A ReturnValue marker is being handed to the caller.
ReturnInFlight == Running /\ ctrl.mode = "ret" /\ IsReturnValue(ctrl.val)

\* C3: a ReturnValue marker travels unchanged through every enclosing
\* activation, none of which evaluates anything more or changes an environment,
\* until the nearest enclosing function call (or the program) unwraps it once and
\* yields the returned value.
C3_ReturnReachesNearestCall ==
    [][ReturnInFlight =>
         IF Head(kont).k = "applyFunction"
         THEN ctrl' = RetC(ctrl.val.inner) /\ kont' = Tail(kont) /\ envs' = envs
         ELSE IF Head(kont).k = "evalProgram"
         THEN status' = "done" /\ result' = ctrl.val.inner /\ envs' = envs
         ELSE ctrl' = ctrl /\ kont' = Tail(kont) /\ envs' = envs /\ status' = status]_vars

\* The value bound to name in the global environment is the integer v.
GlobalIs(name, v) == name \in DOMAIN Global /\ IsInteger(Global[name], v)

\* C4 as stated: the counter closure over c = n yields n + 1 on its first
\* invocation and n + 2 on its second.
C4_CounterObservesFirstCall ==
    \A n \in 0..MaxCounter :
        Ran(ProgCounter(n)) =>
            GlobalIs("a", n + 1) /\ GlobalIs("b", n + 2) /\ IsInteger(result, n + 2)

RECURSIVE Fibonacci(_)
Fibonacci(n) == IF n < 2 THEN n ELSE Fibonacci(n - 1) + Fibonacci(n - 2)

\* C5: a Function object refers to the environment its literal was evaluated
\* in, so a binding made there by a later let is visible to its calls: f sees
\* the y bound after f was created, and fib, bound by the let that evaluates its
\* own literal, calls itself by name and yields the n-th Fibonacci number.
C5_FunctionSeesLaterBindings ==
    /\ \A e \in 1..Len(envs) : \A n \in DOMAIN envs[e].store :
         (envs[e].store[n] # NIL /\ envs[e].store[n].type = "FUNCTION")
            => envs[e].store[n].env \in 1..Len(envs)
    /\ Ran(ProgLateBind) => IsInteger(result, 5)
    /\ \A n \in 0..MaxFib : Ran(ProgFib(n)) => IsInteger(result, Fibonacci(n))
    /\ input.program \in {ProgFib(n) : n \in 0..MaxFib} \cup {ProgLateBind}
         => status # "panic" /\ ~isError(ctrl.val)

\* fib(10) has returned 55.
C5_Witness == Ran(ProgFib(10)) /\ IsInteger(result, 55) /\ Global["fib"].env = 1

\* The user function call whose body is about to be evaluated.
CallJustMade ==
    /\ Running /\ ctrl.mode = "eval" /\ kont # <<>>
    /\ Head(kont).k = "applyFunction"
    /\ ctrl.node = Head(kont).fn.body
    /\ ctrl.env = Head(kont).env

\* C6: every call of a user function evaluates the body in an environment of
\* its own whose outer is the environment captured by the function, whoever the
\* caller is; at the start of the body that environment binds exactly the
\* parameters, each to the argument in the same position; a free identifier of
\* the body resolves in the defining scope although the caller binds the same name.
C6_LexicalScope ==
    /\ \A i \in 1..Len(kont) : kont[i].k = "applyFunction" =>
         /\ envs[kont[i].env].outer = kont[i].fn.env
         /\ \A j \in 1..Len(kont) :
              (j # i /\ kont[j].k = "applyFunction") => kont[j].env # kont[i].env
    /\ CallJustMade =>
         LET f == Head(kont)
             np == Len(f.fn.params)
         IN /\ DOMAIN envs[f.env].store = {f.fn.params[j] : j \in 1..np}
            /\ \A j \in 1..np :
                 (\A l \in (j+1)..np : f.fn.params[l] # f.fn.params[j])
                    => envs[f.env].store[f.fn.params[j]] = f.args[j]
    /\ Ran(ProgLexical) => IsInteger(result, 1)
    /\ Ran(ProgPositional) => IsInteger(result, 2)

\* g(2) has called f, whose free x resolved to the global x = 1, not to g's x = 2.
C6_Witness ==
    /\ Ran(ProgLexical) /\ IsInteger(result, 1)
    /\ Len(envs) = 3 /\ IsInteger(envs[2].store["x"], 2) /\ envs[3].outer = 1

\* The environment of the innermost function call suspended on stack k, or the
\* global environment when there is none.
CallEnvOf(k) ==
    IF \E i \in 1..Len(k) : k[i].k = "applyFunction"
    THEN k[CHOOSE i \in 1..Len(k) :
             k[i].k = "applyFunction" /\ \A j \in 1..(i-1) : k[j].k # "applyFunction"].env
    ELSE 1

\* C7: every node, in particular every statement of an if/else block and every
\* let, is evaluated in the environment of the enclosing function call (the
\* global one outside any call): blocks get no environment of their own.  So a
\* let inside a block stays visible after the block, and a let in a function
\* body is visible neither to the caller nor in the defining environment.
C7_EnvironmentPerCallNotPerBlock ==
    /\ (Running /\ ctrl.mode = "eval") => ctrl.env = CallEnvOf(kont)
    /\ \A i \in 1..Len(kont) :
         (kont[i].k # "applyFunction" /\ "env" \in DOMAIN kont[i])
            => kont[i].env = CallEnvOf(SubSeq(kont, i + 1, Len(kont)))
    /\ Ran(ProgBlockLet) => IsInteger(result, 1) /\ GlobalIs("a", 1) /\ Len(envs) = 1
    /\ Ran(ProgBodyLet) =>
         /\ IsErrorMessage(result, "identifier not found: z")
         /\ DOMAIN Global = {"f", "r"} /\ GlobalIs("r", 2)
         /\ Len(envs) = 2 /\ DOMAIN envs[2].store = {"z", "w"}

\* f() bound z in its body and w in an if block of the body; the caller got w's
\* value and sees neither name.
C7_Witness ==
    /\ Ran(ProgBodyLet) /\ GlobalIs("r", 2)
    /\ IsInteger(envs[2].store["w"], 2)
    /\ IsErrorMessage(result, "identifier not found: z")

\* C8: a call of a user function with fewer or more arguments than parameters
\* is rejected at the call: the evaluator does not fault, no body is evaluated
\* with mismatched arguments, and the program yields an Error.
C8_ArityValidated ==
    /\ status = "panic" => fault \in {NilDeref, DivideByZero}
    /\ \A i \in 1..Len(kont) : kont[i].k = "applyFunction" =>
         Len(kont[i].args) = Len(kont[i].fn.params)
    /\ (Done /\ input.program \in {ProgFewArgs, ProgManyArgs}) => isError(result)

\* The tree is one that ParseProgram builds without a diagnostic: no node is
\* nil but the alternative of an if without else, an integer literal is not
\* negative, a string literal holds neither a quote nor a NUL byte, the
\* operators are those with a parse function, and there is no array, hash or
\* index node (parser.New registers no function for them).
RECURSIVE ParsesWithoutDiagnostics(_)
ParsesWithoutDiagnostics(node) ==
    CASE node \in {NoNode, NilLetStatement, NilBlockStatement} -> FALSE
      [] node.t \in {"Program", "BlockStatement"} ->
           \A i \in 1..Len(node.stmts) : ParsesWithoutDiagnostics(node.stmts[i])
      [] node.t \in {"LetStatement", "ReturnStatement"} -> ParsesWithoutDiagnostics(node.value)
      [] node.t = "ExpressionStatement" -> ParsesWithoutDiagnostics(node.expr)
      [] node.t \in {"Identifier", "Boolean"} -> TRUE
      [] node.t = "IntegerLiteral" -> node.v >= 0
      [] node.t = "StringLiteral" -> \A i \in 1..Len(node.s) : node.s[i] \notin {0, 34}
      [] node.t = "PrefixExpression" ->
           node.op \in PrefixOperators /\ ParsesWithoutDiagnostics(node.right)
      [] node.t = "InfixExpression" ->
           /\ node.op \in InfixOperators
           /\ ParsesWithoutDiagnostics(node.left) /\ ParsesWithoutDiagnostics(node.right)
      [] node.t = "IfExpression" ->
           /\ ParsesWithoutDiagnostics(node.cond) /\ ParsesWithoutDiagnostics(node.cons)
           /\ (node.alt # NoNode => ParsesWithoutDiagnostics(node.alt))
      [] node.t = "FunctionLiteral" -> ParsesWithoutDiagnostics(node.body)
      [] node.t = "CallExpression" ->
           /\ ParsesWithoutDiagnostics(node.fn)
           /\ \A i \in 1..Len(node.args) : ParsesWithoutDiagnostics(node.args[i])
      [] OTHER -> FALSE

\* C9: the evaluation of a program that parses without diagnostics never
\* aborts with a Go runtime panic.
C9_NoHostFault == ParsesWithoutDiagnostics(input.program) => status # "panic"

\* C10: the second evaluation of a Program, against a fresh environment with
\* the same initial bindings, ends as the first did: same result object, same
\* final environments.
C10_Deterministic ==
    (run = 2 /\ status # "running") =>
        first = [status |-> status, result |-> result, envs |-> envs, fault |-> fault]

\* The type of the object an operand literal of ProgInfix / ProgPrefix evaluates to.
OperandType(node) ==
    CASE node.t = "IntegerLiteral" -> "INTEGER"
      [] node.t = "Boolean" -> "BOOLEAN"
      [] node.t = "StringLiteral" -> "STRING"
      [] node.t = "IfExpression" -> "NULL"
      [] node.t = "FunctionLiteral" -> "FUNCTION"

\* C11 as stated: every infix operator, == and != included, applied to operands
\* of different types yields the Error type mismatch: <left> <op> <right>.
C11_MismatchAlwaysError ==
    \A op \in InfixOperators : \A a \in OperandLiterals : \A b \in OperandLiterals :
        (Ran(ProgInfix(op, a, b)) /\ OperandType(a) # OperandType(b))
            => IsErrorMessage(result, "type mismatch: " \o OperandType(a) \o " " \o op
                                      \o " " \o OperandType(b))

\* C11 amended: operands of different types yield the Error type mismatch for
\* the operators + - * / < >, while == and != yield the Boolean of an identity
\* comparison (false and true); non-integer operands of one type yield the
\* Error unknown operator for every operator but == and != (and + on strings);
\* prefix - on a non-integer yields unknown operator: -<type>.
C11_TypedOperatorErrors ==
    /\ \A op \in InfixOperators : \A a \in OperandLiterals : \A b \in OperandLiterals :
         Ran(ProgInfix(op, a, b)) =>
            LET ta == OperandType(a)
                tb == OperandType(b)
            IN /\ (ta # tb /\ op \notin {"==", "!="})
                    => IsErrorMessage(result, "type mismatch: " \o ta \o " " \o op \o " " \o tb)
               /\ (ta # tb /\ op = "==") => result = FALSE_OBJ
               /\ (ta # tb /\ op = "!=") => result = TRUE_OBJ
               /\ (ta = tb /\ ta # "INTEGER" /\ op \notin {"==", "!="}
                     /\ ~(ta = "STRING" /\ op = "+"))
                    => IsErrorMessage(result, "unknown operator: " \o ta \o " " \o op \o " " \o tb)
    /\ \A a \in OperandLiterals :
         (Ran(ProgPrefix("-", a)) /\ OperandType(a) # "INTEGER")
            => IsErrorMessage(result, "unknown operator: -" \o OperandType(a))

\* 2 + true has returned its type-mismatch Error.
C11_Witness ==
    /\ Ran(ProgInfix("+", Num(2), Boolean(TRUE)))
    /\ IsErrorMessage(result, "type mismatch: INTEGER + BOOLEAN")

\* Two separate evaluations of the operand literals a and b give the same object:
\* only the shared TRUE, FALSE and NULL are the same object twice.
SameLiteralObject(a, b) ==
    \/ a.t = "Boolean" /\ b.t = "Boolean" /\ a.b = b.b
    \/ a.t = "IfExpression" /\ b.t = "IfExpression"

\* C12: == and != compare integers by value and every other pair of operands
\* by object identity: two String (or Function) objects from two evaluations
\* are unequal whatever their contents, an object is equal to itself.
C12_EqualityByIdentity ==
    /\ \A a \in OperandLiterals : \A b \in OperandLiterals :
         LET equal == IF a.t = "IntegerLiteral" /\ b.t = "IntegerLiteral"
                      THEN a.v = b.v ELSE SameLiteralObject(a, b)
         IN /\ Ran(ProgInfix("==", a, b)) => result = nativeBoolToBooleanObject(equal)
            /\ Ran(ProgInfix("!=", a, b)) => result = nativeBoolToBooleanObject(~equal)
    /\ Ran(ProgStringSelf("==")) => result = TRUE_OBJ
    /\ Ran(ProgStringSelf("!=")) => result = FALSE_OBJ
    /\ Ran(ProgFunctionSelf("==")) => result = TRUE_OBJ
    /\ Ran(ProgFunctionSelf("!=")) => result = FALSE_OBJ

\* "a" == "a" has compared two String objects of equal contents and returned false.
C12_Witness ==
    /\ Ran(ProgInfix("==", Str(<<97>>), Str(<<97>>)))
    /\ result = FALSE_OBJ /\ nextId = FirstRunId + 2

\* The object is Boolean false or Null, by value.
IsFalseOrNull(obj) ==
    obj # NIL /\ (obj.type = "NULL" \/ (obj.type = "BOOLEAN" /\ obj.b = FALSE))

\* The operand literal evaluates to Boolean false or to Null.
FalsyLiteral(c) == c.t = "IfExpression" \/ (c.t = "Boolean" /\ c.b = FALSE)

\* C13: ! applied to a value yields true exactly when the value is false or
\* Null, and false otherwise; an if whose condition is a value evaluates its
\* consequence exactly when that value is neither false nor Null (so 0 is
\* truthy), otherwise its alternative, and yields Null when there is none.
C13_FalseAndNullAreFalsy ==
    [][/\ (Returning("PrefixExpression") /\ Head(kont).op = "!"
              /\ ctrl.val # NIL /\ ~isError(ctrl.val))
            => ctrl' = RetC(nativeBoolToBooleanObject(IsFalseOrNull(ctrl.val)))
       /\ (Returning("IfExpression") /\ ctrl.val # NIL /\ ~isError(ctrl.val))
            => LET f == Head(kont)
               IN IF ~IsFalseOrNull(ctrl.val) THEN ctrl' = EvalC(BlockNode(f.node.cons), f.env)
                  ELSE IF f.node.alt # NoNode THEN ctrl' = EvalC(BlockNode(f.node.alt), f.env)
                  ELSE ctrl' = RetC(NULL)
       /\ \A c \in OperandLiterals :
            /\ (status' = "done" /\ input.program = ProgPrefix("!", c))
                 => result' = nativeBoolToBooleanObject(FalsyLiteral(c))
            /\ (status' = "done" /\ input.program = ProgIf(c))
                 => IF FalsyLiteral(c) THEN result' = NULL ELSE IsInteger(result', 10)
            /\ (status' = "done" /\ input.program = ProgIfElse(c))
                 => IsInteger(result', IF FalsyLiteral(c) THEN 20 ELSE 10)]_vars

\* if (0) { 10 } has evaluated its consequence and returned 10.
C13_Witness == Ran(ProgIf(Num(0))) /\ IsInteger(result, 10) /\ nextId = FirstRunId + 2

\* The environments from e outwards, innermost first.
RECURSIVE ChainOf(_, _)
ChainOf(es, e) == IF e = 0 THEN <<>> ELSE <<e>> \o ChainOf(es, es[e].outer)

\* C14: evaluating an identifier yields the binding of the innermost
\* environment of the chain that binds the name; when none binds it, the builtin
\* of that name; when there is none either, the Error identifier not found: <name>.
C14_IdentifierLookupOrder ==
    [][Evaluating("Identifier") =>
         LET name == ctrl.node.name
             chain == ChainOf(envs, ctrl.env)
             binders == {i \in 1..Len(chain) : name \in DOMAIN envs[chain[i]].store}
         IN /\ (binders # {}) =>
                 LET i == CHOOSE i \in binders : \A j \in binders : i <= j
                 IN ctrl' = RetC(envs[chain[i]].store[name])
            /\ (binders = {} /\ name = "len") => ctrl' = RetC(BuiltinLen)
            /\ (binders = {} /\ name # "len")
                 => /\ IsErrorMessage(ctrl'.val, "identifier not found: " \o name)
                    /\ ctrl'.mode = "ret"
            /\ (status' = "done" /\ input.program = ProgShadowLen) => IsInteger(result', 5)]_vars

\* let len = 5; len has returned 5, the user binding and not the builtin.
C14_Witness ==
    /\ Ran(ProgShadowLen) /\ IsInteger(result, 5)
    /\ IsInteger(Global["len"], 5)

(***************************************************************************)
(* Parsed lines.                                                           *)
(***************************************************************************)
\* ParseProgram has consumed the whole of this line.
Parsed(line) == parser.l.input = line /\ curTokenIs(parser, "EOF")

\* The precedence classes of the infix operators, lowest first: equality,
\* relational, additive, multiplicative.
Rank(op) ==
    CASE op \in {"==", "!="} -> 1
      [] op \in {"<", ">"} -> 2
      [] op \in {"+", "-"} -> 3
      [] op \in {"*", "/"} -> 4

\* (1 <op1> 2) <op2> 3 and 1 <op1> (2 <op2> 3) as trees, and as rendered.
GroupLeft(op1, op2) ==
    InfixExpression(op2, InfixExpression(op1, Num(1), Num(2)), Num(3))
GroupRight(op1, op2) ==
    InfixExpression(op1, Num(1), InfixExpression(op2, Num(2), Num(3)))
GroupLeftString(op1, op2) == "((1 " \o op1 \o " 2) " \o op2 \o " 3)"
GroupRightString(op1, op2) == "(1 " \o op1 \o " (2 " \o op2 \o " 3))"

\* The line is one expression statement, parsed without diagnostic to this
\* tree, which renders as this text.
ParsesTo(line, tree, text) ==
    Parsed(line) =>
        /\ parser.errors = <<>>
        /\ program = Program(<<Stmt(tree)>>)
        /\ NodeString(program) = Text(text)

LenOfAb == Call("len", <<Str(<<97, 98>>)>>)

\* C15: in a chain of two infix operators the operator of the higher class
\* binds tighter and operators of the same class group to the left;
\* parentheses override both; a prefix operator binds tighter than any infix
\* operator and a call tighter than a prefix or infix operator.  Every prefix
\* and infix node renders in parentheses: 1 + 2 + 3 as ((1 + 2) + 3),
\* 1 + 2 * 3 as (1 + (2 * 3)), which evaluates to 7, and (1 + 2) * 3
\* evaluates to 9.
C15_PrecedenceAndGrouping ==
    /\ \A op1 \in InfixOperators, op2 \in InfixOperators :
          /\ ParsesTo(SrcChain(op1, op2),
                      IF Rank(op2) > Rank(op1) THEN GroupRight(op1, op2)
                      ELSE GroupLeft(op1, op2),
                      IF Rank(op2) > Rank(op1) THEN GroupRightString(op1, op2)
                      ELSE GroupLeftString(op1, op2))
          /\ ParsesTo(SrcGroupLeft(op1, op2), GroupLeft(op1, op2),
                      GroupLeftString(op1, op2))
          /\ ParsesTo(SrcGroupRight(op1, op2), GroupRight(op1, op2),
                      GroupRightString(op1, op2))
    /\ \A pre \in PrefixOperators, op \in InfixOperators :
          ParsesTo(SrcPrefixChain(pre, op),
                   InfixExpression(op, PrefixExpression(pre, Num(1)), Num(2)),
                   "((" \o pre \o "1) " \o op \o " 2)")
    /\ \A op \in InfixOperators :
          ParsesTo(SrcCallChain(op), InfixExpression(op, Num(1), LenOfAb),
                   "(1 " \o op \o " len(ab))")
    /\ ParsesTo(SrcPrefixCall, PrefixExpression("-", LenOfAb), "(-len(ab))")
    /\ ParsesTo(SrcPrefixPrefix, PrefixExpression("!", PrefixExpression("-", Num(1))),
                "(!(-1))")
    /\ Parsed(SrcChain("+", "+")) => NodeString(program) = Text("((1 + 2) + 3)")
    /\ Parsed(SrcChain("+", "*")) =>
          /\ NodeString(program) = Text("(1 + (2 * 3))")
          /\ Done => IsInteger(result, 7)
    /\ Parsed(SrcGroupLeft("+", "*")) /\ Done => IsInteger(result, 9)

\* 1 + 2 * 3 was typed, parsed to 1 + (2 * 3) and evaluated to 7.
C15_Witness ==
    /\ Parsed(SrcChain("+", "*"))
    /\ program = Program(<<Stmt(GroupRight("+", "*"))>>)
    /\ Done
    /\ IsInteger(result, 7)

\* C16: a bare return; parses without any diagnostic to a Return statement
\* without value expression, and its evaluation yields Null: as the result of
\* the program at top level, of the call of a function whose body is return;
\* and of if (true) { return; }.
C16_BareReturnYieldsNull ==
    /\ Parsed(SrcBareReturn) => parser.errors = <<>> /\ program = ProgBareReturn
    /\ Parsed(SrcBareReturnCall) => parser.errors = <<>> /\ program = ProgBareReturnCall
    /\ Parsed(SrcBareReturnIf) => parser.errors = <<>> /\ program = ProgBareReturnIf
    /\ \A p \in {ProgBareReturn, ProgBareReturnCall, ProgBareReturnIf} :
          Ran(p) => result = NULL

\* No statement list of the tree, at any depth, holds a nil statement.
RECURSIVE NoNilStatement(_)
NoNilStatement(node) ==
    IF node = NoNode THEN TRUE
    ELSE IF node = NilLetStatement THEN FALSE
    ELSE IF node.t \in {"Program", "BlockStatement"}
    THEN \A i \in 1..Len(node.stmts) :
            node.stmts[i] # NoNode /\ NoNilStatement(node.stmts[i])
    ELSE IF node.t \in {"LetStatement", "ReturnStatement"} THEN NoNilStatement(node.value)
    ELSE IF node.t = "ExpressionStatement" THEN NoNilStatement(node.expr)
    ELSE IF node.t = "PrefixExpression" THEN NoNilStatement(node.right)
    ELSE IF node.t = "InfixExpression"
    THEN NoNilStatement(node.left) /\ NoNilStatement(node.right)
    ELSE IF node.t = "IfExpression"
    THEN NoNilStatement(node.cond) /\ NoNilStatement(node.cons) /\ NoNilStatement(node.alt)
    ELSE IF node.t = "FunctionLiteral" THEN NoNilStatement(node.body)
    ELSE IF node.t = "CallExpression"
    THEN NoNilStatement(node.fn) /\ \A i \in 1..Len(node.args) : NoNilStatement(node.args[i])
    ELSE TRUE

\* The statement parser gave up on the statement at the current token.
StatementParserGaveUp == parseStatement(parser).node \in {NoNode, NilLetStatement}

\* C17: a statement that fails to parse yields no node: when the statement
\* parser gives up, the round of ParseProgram appends nothing, so the number
\* of statements is the number that parsed, and every element of the
\* Statements of the program and of every block is a non-nil statement node.
C17_FailedParseYieldsNoNode ==
    [][ParseProgramStep =>
           /\ StatementParserGaveUp => program'.stmts = program.stmts
           /\ NoNilStatement(program')]_vars

\* The diagnostics of a statement parsed on its own.
Diagnostics(f) == ParseProgram(NewParser(NewLexer(f.src))).p.errors

\* The diagnostics of each statement of a line, in source order.
RECURSIVE AllDiagnostics(_)
AllDiagnostics(fs) ==
    IF fs = <<>> THEN <<>> ELSE Diagnostics(Head(fs)) \o AllDiagnostics(Tail(fs))

\* Some statement before the i-th one is malformed.
FollowsMalformed(fs, i) == \E j \in 1..(i - 1) : fs[j] \in Malformed

\* The i-th statement is among the statements of the program.
IsParsed(fs, i) == \E k \in 1..Len(program.stmts) : program.stmts[k] = fs[i].node

\* The lines made of malformed and well-formed statements.
MixedLines == MixedPrograms \cup {LetErrors, LetErrorsThenLet}

\* C18 as stated: for a line of malformed and well-formed statements
\* ParseProgram records, in source order, at least one diagnostic for each
\* malformed statement, and parses every well-formed statement that follows a
\* malformed one.
C18_EveryStatementDiagnosedOrParsed ==
    \A fs \in MixedLines :
        Parsed(JoinSrc(fs)) =>
            /\ parser.errors = AllDiagnostics(fs)
            /\ \A i \in 1..Len(fs) : fs[i] \in Malformed => Diagnostics(fs[i]) # <<>>
            /\ \A i \in 1..Len(fs) :
                  fs[i] \in WellFormed /\ FollowsMalformed(fs, i) => IsParsed(fs, i)

\* C19: a program with parser diagnostics is never evaluated.  Reading and
\* parsing a line leave the environments of the session as they are; once the
\* parser holds a diagnostic the line only goes on being parsed or is given
\* up for the next prompt, with the same environments and no call of Eval;
\* and Eval is only ever called for a line parsed without diagnostic.
C19_DiagnosticsNeverEvaluated ==
    [][/\ status \in {"prompt", "parsing"} /\ status' # "running" =>
              envs' = envs /\ nextId' = nextId
       /\ status = "parsing" /\ parser.errors # <<>> =>
              /\ status' \in {"parsing", "prompt"}
              /\ envs' = envs /\ nextId' = nextId
              /\ ctrl' = ctrl /\ input' = input /\ result' = result
       /\ status # "running" /\ status' = "running" =>
              parser.errors = <<>> /\ envs' = envs]_vars

\* After let a = 1; the line let b 2; was given up with its diagnostic: the
\* session is at the prompt, a is bound and b is not.
C19_Witness ==
    /\ status = "prompt"
    /\ Parsed(SrcLetBroken)
    /\ parser.errors # <<>>
    /\ DOMAIN Global = {"a"}

\* C20: a line of n well-formed statements let <identifier> = <expression>,
\* each with its semicolon or without it, parses without diagnostic to exactly
\* the n Let statements with those names and values, in source order (let x = 5
\* gives the name x and the integer literal 5); likewise n statements
\* return <expression>; parse to exactly the n Return statements.
C20_LetAndReturnStatements ==
    /\ \A fs \in LetPrograms \cup ReturnPrograms :
          Parsed(JoinSrc(fs)) =>
              /\ parser.errors = <<>>
              /\ Len(program.stmts) = Len(fs)
              /\ program = Program(Nodes(fs))
    /\ Parsed(<<108, 101, 116, 32, 120, 32, 61, 32, 53>>) =>
          program = Program(<<LetStatement("x", IntegerLiteral(5))>>)

\* Two let statements, the first without its semicolon, were parsed to two
\* Let statements.
C20_Witness ==
    \E fs \in LetPrograms :
        /\ Len(fs) = 2
        /\ fs[1].src[Len(fs[1].src)] # 59
        /\ Parsed(JoinSrc(fs))
        /\ parser.errors = <<>>
        /\ program = Program(<<LetStatement("x", fs[1].node.value),
                               LetStatement("y", fs[2].node.value)>>)

(***************************************************************************)
(* Lexer claims, checked under SpecLexer.                                  *)
(***************************************************************************)
\* The last call of NextToken returned the EOF token.
ReturnedEOF == tokens # <<>> /\ tokens[Len(tokens)].Type = "EOF"

\* C21: end-of-input is absorbing for the lexer: once NextToken has returned
\* the EOF token, every later call of NextToken on the same lexer returns
\* EOF too, for every input over any bytes; every read of the input is at an
\* index inside it.
C21_EOFIsAbsorbing ==
    [][/\ ReturnedEOF => ReturnedEOF'
       /\ lexer'.position >= lexer.position
       /\ lexer'.ch # 0 => lexer'.position < Len(lexer'.input)]_vars

\* C22: an unterminated string literal is reported as an error: when the
\* parse of a line that opens a string and never closes it is over, the
\* parser holds at least one diagnostic, so the line never gives a
\* diagnostic-free Program with a StringLiteral of the truncated text.
C22_UnterminatedStringReported ==
    \A line \in UnterminatedLines :
        Parsed(line) => parser.errors # <<>>

\* The reference lexeme rules, stated on the text and not on a cursor.  The
\* bytes they cover:  = + - ! * / < > , ; ( ) { }  letters and underscore,
\* digits, and the whitespace  ' ' \t \n \r.
PunctuationKind ==
    (61 :> "=") @@ (43 :> "+") @@ (45 :> "-") @@ (33 :> "!") @@ (42 :> "*") @@ (47 :> "/")
    @@ (60 :> "<") @@ (62 :> ">") @@ (44 :> ",") @@ (59 :> ";") @@ (40 :> "(") @@ (41 :> ")")
    @@ (123 :> "{") @@ (125 :> "}")
LetterBytes == (65..90) \cup (97..122) \cup {95}
DigitBytes == 48..57
WhitespaceBytes == {32, 9, 10, 13}
LexemeBytes == DOMAIN PunctuationKind \cup LetterBytes \cup DigitBytes \cup WhitespaceBytes

\* The index of the last byte of the longest run of bytes of the class that
\* starts at index i.
RECURSIVE RunEnd(_, _, _)
RunEnd(text, i, class) ==
    IF i < Len(text) /\ text[i + 1] \in class THEN RunEnd(text, i + 1, class) ELSE i

\* The tokens of the maximal lexemes of text from index i on, in order.
RECURSIVE Lexemes(_, _)
Lexemes(text, i) ==
    LET Word(j) == <<Token(IF SubSeq(text, i, j) \in DOMAIN keywords
                           THEN keywords[SubSeq(text, i, j)] ELSE "IDENT",
                           SubSeq(text, i, j))>> \o Lexemes(text, j + 1)
        Digits(j) == <<Token("INT", SubSeq(text, i, j))>> \o Lexemes(text, j + 1)
    IN IF i > Len(text) THEN <<>>
       ELSE IF text[i] \in WhitespaceBytes THEN Lexemes(text, i + 1)
       ELSE IF text[i] \in LetterBytes THEN Word(RunEnd(text, i, LetterBytes))
       ELSE IF text[i] \in DigitBytes THEN Digits(RunEnd(text, i, DigitBytes))
       ELSE IF text[i] = 61 /\ i < Len(text) /\ text[i + 1] = 61
            THEN <<Token("==", <<61, 61>>)>> \o Lexemes(text, i + 2)
       ELSE IF text[i] = 33 /\ i < Len(text) /\ text[i + 1] = 61
            THEN <<Token("!=", <<33, 61>>)>> \o Lexemes(text, i + 2)
       ELSE <<Token(PunctuationKind[text[i]], <<text[i]>>)>> \o Lexemes(text, i + 1)

\* The text is made of the bytes the lexeme rules cover.
IsLexemeText(text) == \A i \in DOMAIN text : text[i] \in LexemeBytes

\* The i-th token that the reference rules give for the text: its lexemes, then EOF.
ReferenceToken(ref, i) == IF i <= Len(ref) THEN ref[i] ELSE Token("EOF", <<>>)

TokenTypes == [i \in DOMAIN tokens |-> tokens[i].Type]

\* C23: for every input over the single-character tokens, letters and
\* underscore, digits and whitespace, the tokens that repeated NextToken
\* returns are the tokens of the maximal lexemes of the input, in order, each
\* with the matched text as literal, no token for whitespace, and EOF after
\* them; =+(){},; gives ASSIGN PLUS LPAREN RPAREN LBRACE RBRACE COMMA SEMICOLON EOF
\* (the types "=", "+", "(", ")", "{", "}", ",", ";", "EOF" of token.go).
C23_TokensAreMaximalLexemes ==
    /\ IsLexemeText(lexer.input) =>
           LET Matches(ref) == \A i \in DOMAIN tokens : tokens[i] = ReferenceToken(ref, i)
           IN Matches(Lexemes(lexer.input, 1))
    /\ lexer.input = SrcBasic /\ Len(tokens) >= 9 =>
           SubSeq(TokenTypes, 1, 9) = <<"=", "+", "(", ")", "{", "}", ",", ";", "EOF">>

\* 10 == 10; 10 != 9;  has been tokenized up to EOF.
C23_Witness ==
    /\ lexer.input = SrcEquality
    /\ TokenTypes = <<"INT", "==", "INT", ";", "INT", "!=", "INT", ";", "EOF">>
    /\ tokens[1].Literal = <<49, 48>>

\* C24: indexing never errors on a missing element, and that is what Parse
\* followed by Eval gives for source text: [1,2,3][5] parses without
\* diagnostic to the index expression of the array literal 1, 2, 3 by 5 and
\* evaluates to Null, and {"a":1,"b":2}["a"] parses without diagnostic to the
\* index expression of the hash literal by "a" and evaluates to 1.
C24_IndexingFromSource ==
    /\ Parsed(SrcArrayIndex) =>
           /\ parser.errors = <<>>
           /\ program = Program(<<Stmt(IndexExpression(
                            ArrayLiteral(<<Num(1), Num(2), Num(3)>>), Num(5)))>>)
    /\ Parsed(SrcHashIndex) =>
           /\ parser.errors = <<>>
           /\ program = Program(<<Stmt(IndexExpression(
                            HashLiteral(<< <<Str(<<97>>), Num(1)>>, <<Str(<<98>>), Num(2)>> >>),
                            Str(<<97>>)))>>)
    /\ status = "prompt" /\ stdin = <<>> /\ parser.l.input = SrcArrayIndex => result = NULL
    /\ status = "prompt" /\ stdin = <<>> /\ parser.l.input = SrcHashIndex => IsInteger(result, 1)

\* The elements of the object are the integers of the sequence, in order.
IsArrayOf(obj, ints) ==
    /\ obj # NIL
    /\ obj.type = "ARRAY"
    /\ Len(obj.elems) = Len(ints)
    /\ \A i \in DOMAIN ints : IsInteger(obj.elems[i], ints[i])

\* C25: the builtin push(arr, v) resolves by name and is copy-on-write: after
\* let a = [1,2]; let b = push(a, 3);  b is a new array with the elements
\* 1, 2, 3 and a still has exactly the two elements 1, 2.
C25_PushIsCopyOnWrite ==
    Ran(ProgPush) =>
        /\ {"a", "b"} \subseteq DOMAIN Global
        /\ IsArrayOf(Global["a"], <<1, 2>>)
        /\ IsArrayOf(Global["b"], <<1, 2, 3>>)
        /\ Global["a"].id # Global["b"].id

\* Integer, Boolean and String objects to take HashKeys of: each value as two
\* objects of different identity.
KeyObjects ==
    {Integer(v, id) : v \in {-2, -1, 0, 1, 2, 65536}, id \in {20, 21}}
    \cup {TRUE_OBJ, FALSE_OBJ}
    \cup {String(s, id) : s \in {<<>>, <<97>>, <<98>>, <<97, 98>>, <<49>>}, id \in {20, 21}}

\* The value an Integer, Boolean or String object holds.
KeyValue(obj) ==
    IF obj.type = "INTEGER" THEN obj.int ELSE IF obj.type = "BOOLEAN" THEN obj.b ELSE obj.str

SameKey(a, b) == a.type = b.type /\ KeyValue(a) = KeyValue(b)

\* The pairs of the hash whose key object has the type and the value of index.
PairsFor(hash, index) ==
    {k \in DOMAIN hash.pairs : SameKey(hash.pairs[k].key, index)}

\* The index expression h[i] is about to return, h being a Hash and i no Error.
HashLookup ==
    /\ Returning("IndexIndex")
    /\ ~isError(ctrl.val)
    /\ Head(kont).left # NIL
    /\ Head(kont).left.type = "HASH"
    /\ ctrl.val # NIL

\* C26: a HashKey is a type tag and a 64-bit value: false and true give 0 and
\* 1 and an Integer its own bit pattern, so two Integer or Boolean objects
\* have equal HashKeys iff they have the same type and the same value, and
\* two Strings with equal contents have equal HashKeys; a hash lookup finds
\* the entry whose key has the type and value of the index, whatever the
\* identity of the objects, yields Null when there is none, and an Error for
\* an index that is not an Integer, a Boolean or a String.
C26_HashKeyByValue ==
    [][/\ \A a \in KeyObjects, b \in KeyObjects :
              /\ SameKey(a, b) => HashKey(a) = HashKey(b)
              /\ a.type # "STRING" /\ b.type # "STRING" /\ HashKey(a) = HashKey(b)
                     => SameKey(a, b)
       /\ HashKey(TRUE_OBJ) = [type |-> "BOOLEAN", value |-> <<0, 0, 0, 1>>]
       /\ HashKey(FALSE_OBJ) = [type |-> "BOOLEAN", value |-> <<0, 0, 0, 0>>]
       /\ HashLookup =>
              LET hash == Head(kont).left
                  index == ctrl.val
              IN IF index.type \in {"INTEGER", "BOOLEAN", "STRING"}
                 THEN /\ ctrl'.mode = "ret"
                      /\ \A k \in PairsFor(hash, index) : ctrl'.val = hash.pairs[k].value
                      /\ PairsFor(hash, index) = {} => ctrl'.val = NULL
                 ELSE IsErrorMessage(ctrl'.val, "unusable as hash key: " \o index.type)]_vars

\* let h = {1: 2, true: 3, "a": 4}; h["a"] + h[true] + h[1]; h[2]  has run:
\* the three entries were found by index objects made after the hash, and 2
\* is absent.
C26_Witness ==
    /\ Ran(ProgHash)
    /\ IsInteger(Global["s"], 9)
    /\ Global["m"] = NULL

\* The value of a let statement has been evaluated and is no Error: the
\* statement calls env.Set(node.Name.Value, val).
LetBinds == Returning("LetStatement") /\ ~isError(ctrl.val)

\* The step binds name n of environment e, by the let statement in progress.
BoundByLet(e, n) == LetBinds /\ e = Head(kont).env /\ n = Head(kont).name

\* C27: Environment.Set(name, val) on an environment e changes only e's own
\* binding of name: in every step each existing environment keeps its outer
\* environment and all its bindings, except the one that a let statement
\* evaluated in that very environment sets to its value; no step removes a
\* binding.  So a let in a function body that names a variable of an
\* enclosing scope leaves the outer variable as it was:
\* let x = 1; let f = fn() { let x = 2; x }; let r = f(); x  yields 1.
C27_SetChangesOwnBindingOnly ==
    [][/\ \A e \in DOMAIN envs :
              /\ e \in DOMAIN envs'
              /\ envs'[e].outer = envs[e].outer
              /\ DOMAIN envs[e].store \subseteq DOMAIN envs'[e].store
              /\ \A n \in DOMAIN envs[e].store :
                     envs'[e].store[n] # envs[e].store[n] => BoundByLet(e, n)
              /\ \A n \in DOMAIN envs'[e].store \ DOMAIN envs[e].store : BoundByLet(e, n)
       /\ LetBinds =>
              /\ Head(kont).name \in DOMAIN envs'[Head(kont).env].store
              /\ envs'[Head(kont).env].store[Head(kont).name] = ctrl.val
       /\ (status' = "done" /\ input.program = ProgShadowOuter) =>
              /\ IsInteger(result', 1)
              /\ IsInteger(envs'[1].store["x"], 1)
              /\ IsInteger(envs'[1].store["r"], 2)]_vars

\* The body of f has bound its own x to 2 and the global x is still 1.
C27_Witness ==
    /\ Ran(ProgShadowOuter)
    /\ Len(envs) = 2
    /\ envs[2].outer = 1
    /\ IsInteger(envs[2].store["x"], 2)
    /\ IsInteger(Global["x"], 1)

\* C28: ParseProgram terminates for every input: while its loop can take a
\* round the lexer is at most two positions past the end of the line, every
\* round (the statement it parses, with the block and infix loops inside it,
\* and its call of nextToken) leaves the lexer further in the input, and the
\* parse that has begun reaches the EOF token and ends, also for lines with
\* missing semicolons, unclosed braces or parentheses, or illegal bytes.
C28_ParseProgramTerminates ==
    /\ [][RoundPossible =>
              /\ parser.l.position <= Len(parser.l.input) + 2
              /\ status' = "parsing" => parser'.l.position > parser.l.position]_vars
    /\ (status = "parsing") ~> (status # "parsing" /\ curTokenIs(parser, "EOF"))

\* The parse of  if (x < 1 { 1 } else {  has ended, with diagnostics.
C28_Witness ==
    /\ status = "prompt"
    /\ Parsed(SrcUnclosedIf)
    /\ parser.errors # <<>>

\* C29: the REPL keeps one environment for the whole session and never rolls
\* it back.  Eval is called for a line with the global environment as the
\* earlier lines left it; a binding of the global environment changes only
\* by a let statement evaluated in it (a statement of the line or of a block
\* of the line, blocks having no environment of their own), and none is ever
\* removed, neither by an Error, a return, a diagnostic nor the next line;
\* evalProgram stops at the first Error or return of the line.  After the lines
\*   let a = 1;   let b = a + 1; nope; let c = 3;   let b 2;
\*   let d = b; return d; let e = 6;   if (true) { let z = 9 }   a + b + d
\* the global environment binds exactly a = 1, b = 2, d = 2 and z = 9, and
\* the last line yields 5.
C29_ReplEnvironmentAccumulates ==
    [][/\ status = "parsing" /\ status' = "running" =>
              envs' = envs /\ ctrl'.mode = "eval" /\ ctrl'.env = 1 /\ ctrl'.node = program
       /\ Len(envs) >= 1 /\ envs[1].outer = 0
       /\ \A n \in DOMAIN Global :
              /\ n \in DOMAIN envs'[1].store
              /\ envs'[1].store[n] # Global[n] => LetBinds /\ Head(kont).env = 1 /\ Head(kont).name = n
       /\ \A n \in DOMAIN envs'[1].store \ DOMAIN Global :
              LetBinds /\ Head(kont).env = 1 /\ Head(kont).name = n
       /\ status # "running" => envs'[1] = envs[1]
       /\ (status = "running" /\ status' = "done" /\ kont # <<>> /\ Head(kont).k = "evalProgram"
             /\ (isError(ctrl.val) \/ IsReturnValue(ctrl.val))) => envs' = envs
       /\ (status' = "exit" /\ parser.l.input = SrcSum) =>
              /\ DOMAIN envs'[1].store = {"a", "b", "d", "z"}
              /\ IsInteger(envs'[1].store["z"], 9)
              /\ IsInteger(envs'[1].store["a"], 1)
              /\ IsInteger(envs'[1].store["b"], 2)
              /\ IsInteger(envs'[1].store["d"], 2)
              /\ IsInteger(result', 5)]_vars

\* The session of six lines has been read to its end.
C29_Witness ==
    /\ status = "exit"
    /\ parser.l.input = SrcSum
    /\ DOMAIN Global = {"a", "b", "d", "z"}
    /\ IsInteger(result, 5)

\* The elements of a sequence.
Elements(seq) == {seq[i] : i \in DOMAIN seq}

\* The Boolean objects that an object is or holds.
RECURSIVE BooleansOf(_)
BooleansOf(obj) ==
    IF obj = NIL THEN {}
    ELSE IF obj.type = "BOOLEAN" THEN {obj}
    ELSE IF obj.type = "RETURN_VALUE" THEN BooleansOf(obj.inner)
    ELSE IF obj.type = "ARRAY" THEN UNION {BooleansOf(e) : e \in Elements(obj.elems)}
    ELSE IF obj.type = "HASH"
    THEN UNION {BooleansOf(obj.pairs[k].key) \cup BooleansOf(obj.pairs[k].value) :
                   k \in DOMAIN obj.pairs}
    ELSE {}

\* The objects that a suspended activation of Eval holds.
FrameObjects(f) ==
    CASE f.k \in {"InfixRight", "IndexIndex"} -> {f.left}
      [] f.k = "applyFunction" -> {f.fn} \cup Elements(f.args)
      [] f.k = "CallArguments" -> {f.fn} \cup Elements(f.acc)
      [] f.k = "ArrayElements" -> Elements(f.acc)
      [] f.k = "HashValue" ->
             {f.key} \cup {f.acc[k].key : k \in DOMAIN f.acc} \cup {f.acc[k].value : k \in DOMAIN f.acc}
      [] f.k = "HashKey" ->
             {f.acc[k].key : k \in DOMAIN f.acc} \cup {f.acc[k].value : k \in DOMAIN f.acc}
      [] OTHER -> {}

\* Every object the evaluation holds: the value in flight, the result, the
\* values bound in the environments and those of the suspended activations.
HeldObjects ==
    {ctrl.val, result}
    \cup UNION {{envs[e].store[n] : n \in DOMAIN envs[e].store} : e \in DOMAIN envs}
    \cup UNION {FrameObjects(kont[i]) : i \in DOMAIN kont}

HeldBooleans == UNION {BooleansOf(obj) : obj \in HeldObjects}

\* C30: every Boolean object that evaluation produces or stores is one of the
\* two shared objects TRUE and FALSE, so for the booleans of every reachable
\* state the identity comparison of == and !=, the cases of ! and truthiness
\* agree with comparison by value; (1 < 2) == true is true.
C30_BooleansAreSingletons ==
    /\ \A x \in HeldBooleans : x = TRUE_OBJ \/ x = FALSE_OBJ
    /\ \A x \in HeldBooleans, y \in HeldBooleans \cup {TRUE_OBJ, FALSE_OBJ} :
           /\ evalInfixExpression("==", x, y, nextId) = Ok(nativeBoolToBooleanObject(x.b = y.b))
           /\ evalInfixExpression("!=", x, y, nextId) = Ok(nativeBoolToBooleanObject(x.b # y.b))
           /\ evalBangOperatorExpression(x) = nativeBoolToBooleanObject(~x.b)
           /\ isTruthy(x) = x.b
    /\ Ran(ProgLessIsTrue) => result = TRUE_OBJ
    /\ Ran(ProgBooleans) => result = TRUE_OBJ

\* let t = !(1 > 2); let a = [t, 1 != 1]; ...  has run: the array holds the
\* results of ! and of !=, and a[0] == t was evaluated.
C30_Witness ==
    /\ Ran(ProgBooleans)
    /\ Global["t"] = TRUE_OBJ
    /\ Global["a"].elems = <<TRUE_OBJ, FALSE_OBJ>>
    /\ result = TRUE_OBJ

====
